---- MODULE Spec2Model ----
(***************************************************************************)
(* A model of the inline code-completion engine of                         *)
(* src/src/vs/workbench/contrib/void/browser/autocompleteService.ts:       *)
(* the LRUCache container, the string helpers of the matchup engine, the   *)
(* postprocessor and classifier as functions of their arguments, and the   *)
(* prediction lifecycle of AutocompleteService.                            *)
(*                                                                         *)
(* Text is modelled as a sequence of one-character strings; indices that   *)
(* the code returns (startIdx, indexOf, ...) are 0-based as in the code.   *)
(* An optional value (T | undefined) is the empty sequence or <<value>>.   *)
(***************************************************************************)
EXTENDS Integers, Sequences, FiniteSets, TLC

VARIABLES
    isWindows,      \* platform flag read by _ln (base/common/platform.js)
    now,            \* Date.now()
    nTicks,         \* how often the clock has advanced
    limits,         \* the bounds of this run (see Scenarios)
    _autocompletionId,
    _autocompletionsOfDocument,  \* docUriStr -> LRUCache of Autocompletion ids
    _lastCompletionStart,
    _lastCompletionAccept,
    autocompletions,  \* the Autocompletion objects created so far, by id
    llmRequests,    \* the model service's view of each request sent
    timeoutTimers,  \* the ids whose TIMEOUT_TIME timer has not fired yet
    calls,          \* the calls of _provideInlineCompletionItems, in start order
    abortLog,       \* the calls of llmMessageService.abort, in order (history)
    lru,            \* SpecLRU: one LRUCache object
    lruLast,        \* SpecLRU: the last operation applied to lru and what it did
    lruRecency,     \* SpecLRU: the keys held, least recently set first (history)
    fnInput,        \* SpecFn: the function called and its arguments
    fnOutput        \* SpecFn: what the call returned

envVars == <<isWindows, fnInput, fnOutput>>
lruVars == <<lru, lruLast, lruRecency>>
svcVars ==
    <<now, nTicks, limits, _autocompletionId, _autocompletionsOfDocument, _lastCompletionStart,
      _lastCompletionAccept, autocompletions, llmRequests, timeoutTimers, calls, abortLog>>
vars == <<envVars, lruVars, svcVars>>

\* no function of SpecFn is being called
NoFn == [fn |-> "none"]
FnIdle == fnInput = NoFn /\ fnOutput = NoFn

\* ------------------------------------------------------------------ bounds

\* SpecLRU: keys are 1..MaxKeys, maxSize is drawn from 1..MaxSize.
MaxKeys == 3
MaxSize == 2
\* Spec: the clock starts at StartTime. A run is bounded in the number of calls
\* of _provideInlineCompletionItems started, of clock advances, of requests the
\* model service has called back on, and of acceptances (see Scenarios).
MaxCalls == 3
MaxTicks == 3
MaxAccepts == 1
LiveCalls == 2
LiveSettled == 1
StartTime == 1000

\* ------------------------------------------------------- program constants

DEBOUNCE_TIME == 500
TIMEOUT_TIME == 60000
MAX_CACHE_SIZE == 20
MAX_PENDING_REQUESTS == 2

\* ------------------------------------------------------------ JS strings

None == <<>>
Some(x) == <<x>>

MinOf(S) == CHOOSE x \in S : \A y \in S : x <= y
MaxOf(S) == CHOOSE x \in S : \A y \in S : x >= y

\* the characters matched by \s that the model's alphabet holds
IsWhitespace(c) == c \in {" ", "\t", "\n", "\r"}
\* the characters after which a multiline ^ matches
IsLineTerminator(c) == c \in {"\n", "\r"}

allLinebreakSymbols == << <<"\r", "\n">>, <<"\n">> >>
_ln == IF isWindows THEN allLinebreakSymbols[1] ELSE allLinebreakSymbols[2]

\* an index argument of slice: negative counts from the end, clamped to 0..length
SliceIndex(s, i) ==
    IF i < 0 THEN (IF Len(s) + i < 0 THEN 0 ELSE Len(s) + i)
    ELSE IF i > Len(s) THEN Len(s) ELSE i
\* s.slice(from, to) and s.slice(from) (0-based, end exclusive)
slice(s, from, to) == SubSeq(s, SliceIndex(s, from) + 1, SliceIndex(s, to))
sliceFrom(s, from) == SubSeq(s, SliceIndex(s, from) + 1, Len(s))
\* s.substring(0, to)
substring0(s, to) == SubSeq(s, 1, IF to < 0 THEN 0 ELSE IF to > Len(s) THEN Len(s) ELSE to)

\* s.startsWith(p)
startsWith(s, p) == Len(p) <= Len(s) /\ SubSeq(s, 1, Len(p)) = p

\* s.indexOf(p) and s.lastIndexOf(p): 0-based, -1 when p does not occur
indexOf(s, p) ==
    LET I == {i \in 0..(Len(s) - Len(p)) : SubSeq(s, i + 1, i + Len(p)) = p}
    IN  IF I = {} THEN -1 ELSE MinOf(I)
lastIndexOf(s, p) ==
    LET I == {i \in 0..(Len(s) - Len(p)) : SubSeq(s, i + 1, i + Len(p)) = p}
    IN  IF I = {} THEN -1 ELSE MaxOf(I)
includes(s, p) == indexOf(s, p) >= 0

\* s.trimEnd(), s.trimStart(), s.trim()
trimEnd(s) ==
    LET I == {i \in 1..Len(s) : ~IsWhitespace(s[i])}
    IN  IF I = {} THEN <<>> ELSE SubSeq(s, 1, MaxOf(I))
trimStart(s) ==
    LET I == {i \in 1..Len(s) : ~IsWhitespace(s[i])}
    IN  IF I = {} THEN <<>> ELSE SubSeq(s, MinOf(I), Len(s))
trim(s) == trimStart(trimEnd(s))

\* s.split(sep) for a non-empty separator
RECURSIVE split(_, _)
split(s, sep) ==
    LET i == indexOf(s, sep)
    IN  IF i < 0 THEN <<s>>
        ELSE <<SubSeq(s, 1, i)>> \o split(sliceFrom(s, i + Len(sep)), sep)

\* lines.join(sep)
RECURSIVE join(_, _)
join(lines, sep) ==
    IF Len(lines) = 0 THEN <<>>
    ELSE IF Len(lines) = 1 THEN lines[1]
    ELSE lines[1] \o sep \o join(Tail(lines), sep)

\* what string concatenation makes of the value undefined
UndefinedText == <<"u", "n", "d", "e", "f", "i", "n", "e", "d">>

\* ------------------------------------------------------- matchup engine

\* the end (1-based, inclusive) of the run of whitespace that starts at s[i]
RECURSIVE WhitespaceRunEnd(_, _)
WhitespaceRunEnd(s, i) ==
    IF i < Len(s) /\ IsWhitespace(s[i + 1]) THEN WhitespaceRunEnd(s, i + 1) ELSE i

\* s.replace(/^\s+/gm, '') from position i on: a run of whitespace (line breaks
\* included) is dropped where it starts the text or follows a line terminator
RECURSIVE RemoveLeftTabsFrom(_, _)
RemoveLeftTabsFrom(s, i) ==
    IF i > Len(s) THEN <<>>
    ELSE IF (i = 1 \/ IsLineTerminator(s[i - 1])) /\ IsWhitespace(s[i])
    THEN RemoveLeftTabsFrom(s, WhitespaceRunEnd(s, i) + 1)
    ELSE <<s[i]>> \o RemoveLeftTabsFrom(s, i + 1)

removeLeftTabsAndTrimEnds(s) ==
    LET trimmedString == trimEnd(s)
        trailingEnd == sliceFrom(s, Len(trimmedString))
        s1 == IF includes(trailingEnd, _ln) THEN trimmedString \o _ln ELSE s
    IN  RemoveLeftTabsFrom(s1, 1)

\* str.replace(/\s+/g, '')
removeAllWhitespace(str) == SelectSeq(str, LAMBDA c : ~IsWhitespace(c))

\* str.split(_ln).slice(0, line).join(_ln).length + (line > 0 ? 1 : 0) + char
getIndex(str, line, char) ==
    LET lines == split(str, _ln)
        upTo == SubSeq(lines, 1, IF line > Len(lines) THEN Len(lines) ELSE line)
    IN  Len(join(upTo, _ln)) + (IF line > 0 THEN 1 ELSE 0) + char

\* s.match(/[^<_ln>]*$/): the longest end of s that holds no character of _ln
getLastLine(s) ==
    LET inLn(c) == \E j \in 1..Len(_ln) : _ln[j] = c
        I == {i \in 1..Len(s) : inLn(s[i])}
    IN  IF I = {} THEN s ELSE SubSeq(s, MaxOf(I) + 1, Len(s))

\* getAutocompletionMatchup from "const charMatchIdx" on
MatchupInLine(insertText, lineStart, currentPrefixLine, completionPrefixLine, charMatchIdx) ==
    IF charMatchIdx < 0 THEN None
    ELSE Some([startLine |-> lineStart,
               startCharacter |->
                   charMatchIdx + Len(currentPrefixLine) - Len(completionPrefixLine),
               startIdx |->
                   getIndex(insertText, lineStart,
                            charMatchIdx + Len(currentPrefixLine) - Len(completionPrefixLine))])

\* autocompletion.insertText.split(_ln)[lineStart], as string concatenation sees it
LineOrUndefined(lines, lineStart) ==
    IF lineStart + 1 <= Len(lines) THEN lines[lineStart + 1] ELSE UndefinedText

\* getAutocompletionMatchup from "const currentPrefixLine" on
MatchupOnLine(insertText, lineStart, currentPrefixLine, completionPrefixLine) ==
    MatchupInLine(insertText, lineStart, currentPrefixLine, completionPrefixLine,
                  indexOf(completionPrefixLine
                              \o LineOrUndefined(split(insertText, _ln), lineStart),
                          currentPrefixLine))

\* getAutocompletionMatchup from "if (lineStart < 0)" on
MatchupAtLine(insertText, trimmedCurrentPrefix, trimmedCompletionPrefix, lineStart) ==
    IF lineStart < 0 THEN None
    ELSE MatchupOnLine(insertText, lineStart, getLastLine(trimmedCurrentPrefix),
                       IF lineStart = 0 THEN getLastLine(trimmedCompletionPrefix) ELSE <<>>)

\* a matchup that wants the current prefix to go beyond the stored one
MatchupOfTrimmed_beyond(insertText, trimmedCurrentPrefix, trimmedCompletionPrefix, trimmedCompletionMiddle) ==
    IF Len(trimmedCurrentPrefix) <= Len(trimmedCompletionPrefix) THEN None
    ELSE IF ~startsWith(trimmedCompletionPrefix \o trimmedCompletionMiddle,
                        trimmedCurrentPrefix) THEN None
    ELSE MatchupAtLine(insertText, trimmedCurrentPrefix, trimmedCompletionPrefix,
                       Len(split(trimmedCurrentPrefix, _ln))
                           - Len(split(trimmedCompletionPrefix, _ln)))

\* getAutocompletionMatchup after the three prefixes are trimmed
MatchupOfTrimmed(insertText, trimmedCurrentPrefix, trimmedCompletionPrefix, trimmedCompletionMiddle) ==
    IF Len(trimmedCurrentPrefix) < Len(trimmedCompletionPrefix) THEN None
    ELSE IF ~startsWith(trimmedCompletionPrefix \o trimmedCompletionMiddle,
                        trimmedCurrentPrefix) THEN None
    ELSE MatchupAtLine(insertText, trimmedCurrentPrefix, trimmedCompletionPrefix,
                       Len(split(trimmedCurrentPrefix, _ln))
                           - Len(split(trimmedCompletionPrefix, _ln)))

\* getAutocompletionMatchup({ prefix, autocompletion }): the bounds, or undefined
getAutocompletionMatchup(prefix, autocompletion) ==
    MatchupOfTrimmed(autocompletion.insertText,
                     removeLeftTabsAndTrimEnds(prefix),
                     removeLeftTabsAndTrimEnds(autocompletion.prefix),
                     removeLeftTabsAndTrimEnds(autocompletion.insertText))

\* ---------------------------------------------------------- postprocessor

\* extractCodeFromRegular({ text, ... })[0]: the text inside a surrounding code
\* fence; the alphabet holds no backtick, so the text is returned as it is
extractCodeFromRegular(text) == text

processStartAndEndSpaces(result0) ==
    LET result == extractCodeFromRegular(result0)
        hasLeadingSpace == Len(result) > 0 /\ result[1] = " "
        hasTrailingSpace == Len(result) > 0 /\ result[Len(result)] = " "
    IN  (IF hasLeadingSpace THEN <<" ">> ELSE <<>>)
            \o trim(result)
            \o (IF hasTrailingSpace THEN <<" ">> ELSE <<>>)

\* the loop of getIsSubsequence from of[i] on
RECURSIVE IsSubsequenceFrom(_, _, _, _, _)
IsSubsequenceFrom(of, subsequence, i, subsequenceIndex, lastMatchChar) ==
    IF i > Len(of) THEN <<FALSE, lastMatchChar>>
    ELSE LET hit == subsequenceIndex <= Len(subsequence)
                        /\ of[i] = subsequence[subsequenceIndex]
             idx == IF hit THEN subsequenceIndex + 1 ELSE subsequenceIndex
             last == IF hit THEN <<of[i]>> ELSE lastMatchChar
         IN  IF idx = Len(subsequence) + 1 THEN <<TRUE, last>>
             ELSE IsSubsequenceFrom(of, subsequence, i + 1, idx, last)

\* getIsSubsequence({ of, subsequence }): [isSubsequence, lastMatchChar]
getIsSubsequence(of, subsequence) ==
    IF Len(subsequence) = 0 THEN <<TRUE, <<>>>>
    ELSE IF Len(of) = 0 THEN <<FALSE, <<>>>>
    ELSE IsSubsequenceFrom(of, subsequence, 1, 1, <<>>)

IsOpener(c) == c \in {"(", "{", "["}
IsCloser(c) == c \in {")", "}", "]"}
pairs(c) == IF c = ")" THEN "(" ELSE IF c = "}" THEN "{" ELSE "["

\* the stack after the brackets of the prefix, from its first opener on
RECURSIVE PrefixStack(_, _, _)
PrefixStack(brackets, i, stack) ==
    IF i > Len(brackets) THEN stack
    ELSE LET bracket == brackets[i]
         IN  IF IsOpener(bracket) THEN PrefixStack(brackets, i + 1, Append(stack, bracket))
             ELSE IF Len(stack) > 0 /\ stack[Len(stack)] = pairs(bracket)
             THEN PrefixStack(brackets, i + 1, SubSeq(stack, 1, Len(stack) - 1))
             ELSE PrefixStack(brackets, i + 1, Append(stack, bracket))

\* the scan of s from s[i] on
RECURSIVE UpToUnbalanced(_, _, _)
UpToUnbalanced(s, i, stack) ==
    IF i > Len(s) THEN s
    ELSE LET char == s[i]
         IN  IF IsOpener(char) THEN UpToUnbalanced(s, i + 1, Append(stack, char))
             ELSE IF IsCloser(char)
             THEN IF Len(stack) = 0 \/ stack[Len(stack)] # pairs(char)
                  THEN SubSeq(s, 1, i - 1)
                  ELSE UpToUnbalanced(s, i + 1, SubSeq(stack, 1, Len(stack) - 1))
             ELSE UpToUnbalanced(s, i + 1, stack)

getStringUpToUnbalancedClosingParenthesis(s, prefix) ==
    LET opens == {i \in 1..Len(prefix) : IsOpener(prefix[i])}
        brackets ==
            IF opens = {} THEN <<>>
            ELSE SelectSeq(SubSeq(prefix, MinOf(opens), Len(prefix)),
                           LAMBDA c : IsOpener(c) \/ IsCloser(c))
    IN  UpToUnbalanced(s, 1, PrefixStack(brackets, 1, <<>>))

\* text.match(new RegExp(`^${_ln}+`))?.[0].length || 0
NumStartingNewlines(text) ==
    LET last == _ln[Len(_ln)]
        head == SubSeq(_ln, 1, Len(_ln) - 1)
        rest == sliceFrom(text, Len(head))
        runs == {n \in 0..Len(rest) : \A i \in 1..n : rest[i] = last}
    IN  IF startsWith(text, _ln) THEN Len(head) + MaxOf(runs) ELSE 0

\* text.search(/[^\t ]/)
FirstNonspaceIdx(text) ==
    LET I == {i \in 1..Len(text) : text[i] # " " /\ text[i] # "\t"}
    IN  IF I = {} THEN -1 ELSE MinOf(I) - 1

Min2(a, b) == IF a < b THEN a ELSE b
Max2(a, b) == IF a > b THEN a ELSE b

\* "if there is space at the start of the completion and user has added it,
\* remove it": the new startIdx
SkipAddedSpace(startIdx, rawFirstNonspaceIdx, charToLeftOfCursor) ==
    IF rawFirstNonspaceIdx > -1 /\ charToLeftOfCursor \in {<<" ">>, <<"\t">>}
    THEN Max2(startIdx, rawFirstNonspaceIdx + startIdx) ELSE startIdx

\* "if user is on a blank line and the generation starts with newline(s), remove
\* them": the new startIdx
SkipStartingNewlines(startIdx, numStartingNewlines, prefixAndSuffix) ==
    IF /\ trim(prefixAndSuffix.prefixToTheLeftOfCursor) = <<>>
       /\ trim(prefixAndSuffix.suffixToTheRightOfCursor) = <<>>
       /\ numStartingNewlines > 0
    THEN startIdx + numStartingNewlines ELSE startIdx

\* generatedMiddle[matchIdx] is one of {}()[]<>`'"
IsMatchChar(generatedMiddle, matchIdx) ==
    /\ matchIdx + 1 \in 1..Len(generatedMiddle)
    /\ generatedMiddle[matchIdx + 1] \in
           {"{", "}", "(", ")", "[", "]", "<", ">", "`", "'", "\""}

\* a suffix match that stops single-line-redo-suffix predictions instead
StopAtSuffixMatch_redo(generatedMiddle, type, trimmedSuffix, startIdx, endIdx, rawMatchIndex) ==
    IF /\ type = "single-line-redo-suffix"
       /\ trimmedSuffix # <<>>
       /\ rawMatchIndex > -1
       /\ IsMatchChar(generatedMiddle, rawMatchIndex + startIdx)
    THEN Min2(endIdx, rawMatchIndex + startIdx) ELSE endIdx

\* "if the generated FIM text matches with the suffix on the current line, stop":
\* the new endIdx
StopAtSuffixMatch(generatedMiddle, type, trimmedSuffix, startIdx, endIdx, rawMatchIndex) ==
    IF /\ type = "single-line-fill-middle"
       /\ trimmedSuffix # <<>>
       /\ rawMatchIndex > -1
       /\ IsMatchChar(generatedMiddle, rawMatchIndex + startIdx)
    THEN Min2(endIdx, rawMatchIndex + startIdx) ELSE endIdx

\* "condition to complete as a single line completion": the new endIdx
StopAtNewline(prefixAndSuffix, restOfLineToGenerate, startIdx, endIdx, rawNewlineIdx) ==
    IF /\ trim(prefixAndSuffix.prefixToTheLeftOfCursor) # <<>>
       /\ trim(prefixAndSuffix.suffixToTheRightOfCursor) = <<>>
       /\ trim(restOfLineToGenerate) # <<>>
       /\ rawNewlineIdx > -1
    THEN Min2(endIdx, rawNewlineIdx + startIdx) ELSE endIdx

\* postprocessAutocompletion once startIdx is final; fromStart is
\* generatedMiddle.slice(startIdx), trimmedSuffix is suffixToTheRightOfCursor.trim()
PostprocessFrom(generatedMiddle, type, prefixAndSuffix, startIdx, fromStart, trimmedSuffix) ==
    getStringUpToUnbalancedClosingParenthesis(
        slice(generatedMiddle, startIdx,
              StopAtNewline(prefixAndSuffix, split(fromStart, _ln)[1], startIdx,
                  StopAtSuffixMatch(generatedMiddle, type, trimmedSuffix, startIdx,
                      Len(generatedMiddle),
                      lastIndexOf(fromStart, SubSeq(trimmedSuffix, 1, 1))),
                  indexOf(fromStart, _ln))),
        prefixAndSuffix.prefix)

\* postprocessAutocompletion once startIdx is final
PostprocessAt(generatedMiddle, type, prefixAndSuffix, startIdx) ==
    PostprocessFrom(generatedMiddle, type, prefixAndSuffix, startIdx,
                    sliceFrom(generatedMiddle, startIdx),
                    trim(prefixAndSuffix.suffixToTheRightOfCursor))

\* postprocessAutocompletion after the added space is skipped
PostprocessAfterSpace(generatedMiddle, type, prefixAndSuffix, startIdx) ==
    PostprocessAt(generatedMiddle, type, prefixAndSuffix,
        SkipStartingNewlines(startIdx,
            NumStartingNewlines(sliceFrom(generatedMiddle, startIdx)), prefixAndSuffix))

postprocessAutocompletion(autocompletionMatchup, autocompletion, prefixAndSuffix) ==
    PostprocessAfterSpace(autocompletion.insertText, autocompletion.type, prefixAndSuffix,
        SkipAddedSpace(autocompletionMatchup.startIdx,
            FirstNonspaceIdx(sliceFrom(autocompletion.insertText,
                                       autocompletionMatchup.startIdx)),
            sliceFrom(prefixAndSuffix.prefixToTheLeftOfCursor, -1)))

\* the item toInlineCompletions returns, given the postprocessed text and the
\* result of getIsSubsequence. The range starts at the cursor; it ends
\* numCharsToReplace columns to its right, or at the end of the line (column
\* Number.MAX_SAFE_INTEGER) when toEndOfLine.
InlineCompletion(type, oldSuffix, trimmedInsertText, isSubsequence, lastMatchingChar) ==
    IF type # "single-line-redo-suffix"
    THEN <<[insertText |-> trimmedInsertText,
            toEndOfLine |-> FALSE, numCharsToReplace |-> 0]>>
    ELSE IF isSubsequence
    THEN <<[insertText |-> trimmedInsertText,
            toEndOfLine |-> TRUE, numCharsToReplace |-> 0]>>
    ELSE <<[insertText |->
                slice(trimmedInsertText, 0,
                      lastIndexOf(trimmedInsertText, lastMatchingChar) + 1),
            toEndOfLine |-> FALSE,
            numCharsToReplace |-> lastIndexOf(oldSuffix, lastMatchingChar) + 1]>>

InlineCompletionFor(type, oldSuffix, trimmedInsertText, sub) ==
    InlineCompletion(type, oldSuffix, trimmedInsertText, sub[1], sub[2])

toInlineCompletions(autocompletionMatchup, autocompletion, prefixAndSuffix) ==
    InlineCompletionFor(autocompletion.type,
        prefixAndSuffix.suffixToTheRightOfCursor,
        postprocessAutocompletion(autocompletionMatchup, autocompletion, prefixAndSuffix),
        getIsSubsequence(removeAllWhitespace(autocompletion.insertText),
                         removeAllWhitespace(prefixAndSuffix.suffixToTheRightOfCursor)))

\* ------------------------------------------------------ context extractor

\* getPrefixAndSuffixInfo(model, position), for the buffer text with LF line
\* ends (model.getValue(EndOfLinePreference.LF)) and the cursor's offset in it
PrefixAndSuffixInfo(prefix, suffix, prefixLines, suffixLines) ==
    [prefix |-> prefix, suffix |-> suffix,
     prefixLines |-> prefixLines, suffixLines |-> suffixLines,
     prefixToTheLeftOfCursor |-> prefixLines[Len(prefixLines)],
     suffixToTheRightOfCursor |-> suffixLines[1]]

getPrefixAndSuffixInfo(fullText, cursorOffset) ==
    PrefixAndSuffixInfo(substring0(fullText, cursorOffset),
                        sliceFrom(fullText, cursorOffset),
                        split(substring0(fullText, cursorOffset), _ln),
                        split(sliceFrom(fullText, cursorOffset), _ln))

\* -------------------------------------------------------------- classifier

\* lines.slice(0, n) and lines.slice(-n)
FirstLines(lines, n) == SubSeq(lines, 1, Min2(n, Len(lines)))
LastLines(lines, n) == SubSeq(lines, Max2(1, Len(lines) - n + 1), Len(lines))

\* a classifier whose last fill-middle rule forgets to ask for a request
CompletionOptionsFor_noRequest(prefixToTheLeftOfCursor, suffixToTheRightOfCursor, justAcceptedAutocompletion, prefix, suffix, suffixLines) ==
    IF justAcceptedAutocompletion /\ Len(removeAllWhitespace(suffixToTheRightOfCursor)) = 0
    THEN [predictionType |-> "multi-line-start-on-next-line",
          shouldGenerate |-> TRUE,
          llmPrefix |-> prefix \o _ln,
          llmSuffix |-> suffix,
          stopTokens |-> <<_ln \o _ln>>]
    ELSE IF trim(prefixToTheLeftOfCursor) = <<>> /\ trim(suffixToTheRightOfCursor) = <<>>
    THEN [predictionType |-> "single-line-fill-middle",
          shouldGenerate |-> TRUE,
          llmPrefix |-> prefix,
          llmSuffix |-> suffix,
          stopTokens |-> allLinebreakSymbols]
    ELSE IF Len(removeAllWhitespace(suffixToTheRightOfCursor)) <= 3
    THEN [predictionType |-> "single-line-redo-suffix",
          shouldGenerate |-> TRUE,
          llmPrefix |-> prefix,
          llmSuffix |-> IF Len(Tail(suffixLines)) = 0 THEN <<>>
                        ELSE _ln \o join(Tail(suffixLines), _ln),
          stopTokens |-> allLinebreakSymbols]
    ELSE IF ~(Len(removeAllWhitespace(prefixToTheLeftOfCursor)) = 0)
    THEN [predictionType |-> "single-line-fill-middle",
          shouldGenerate |-> FALSE,
          llmPrefix |-> prefix,
          llmSuffix |-> suffix,
          stopTokens |-> allLinebreakSymbols]
    ELSE [predictionType |-> "do-not-predict",
          shouldGenerate |-> FALSE,
          llmPrefix |-> prefix,
          llmSuffix |-> suffix,
          stopTokens |-> <<>>]

\* a classifier that asks for the line prefix before it looks at the line suffix
CompletionOptionsFor_prefixFirst(prefixToTheLeftOfCursor, suffixToTheRightOfCursor, justAcceptedAutocompletion, prefix, suffix, suffixLines) ==
    IF justAcceptedAutocompletion /\ Len(removeAllWhitespace(suffixToTheRightOfCursor)) = 0
    THEN [predictionType |-> "multi-line-start-on-next-line",
          shouldGenerate |-> TRUE,
          llmPrefix |-> prefix \o _ln,
          llmSuffix |-> suffix,
          stopTokens |-> <<_ln \o _ln>>]
    ELSE IF trim(prefixToTheLeftOfCursor) = <<>> /\ trim(suffixToTheRightOfCursor) = <<>>
    THEN [predictionType |-> "single-line-fill-middle",
          shouldGenerate |-> TRUE,
          llmPrefix |-> prefix,
          llmSuffix |-> suffix,
          stopTokens |-> allLinebreakSymbols]
    ELSE IF ~(Len(removeAllWhitespace(prefixToTheLeftOfCursor)) = 0)
    THEN [predictionType |-> "single-line-fill-middle",
          shouldGenerate |-> TRUE,
          llmPrefix |-> prefix,
          llmSuffix |-> suffix,
          stopTokens |-> allLinebreakSymbols]
    ELSE IF Len(removeAllWhitespace(suffixToTheRightOfCursor)) <= 3
    THEN [predictionType |-> "single-line-redo-suffix",
          shouldGenerate |-> TRUE,
          llmPrefix |-> prefix,
          llmSuffix |-> IF Len(Tail(suffixLines)) = 0 THEN <<>>
                        ELSE _ln \o join(Tail(suffixLines), _ln),
          stopTokens |-> allLinebreakSymbols]
    ELSE [predictionType |-> "do-not-predict",
          shouldGenerate |-> FALSE,
          llmPrefix |-> prefix,
          llmSuffix |-> suffix,
          stopTokens |-> <<>>]

\* a classifier whose redo-suffix rule leaves the rest of the line in the suffix
CompletionOptionsFor_keepsLine(prefixToTheLeftOfCursor, suffixToTheRightOfCursor, justAcceptedAutocompletion, prefix, suffix, suffixLines) ==
    IF justAcceptedAutocompletion /\ Len(removeAllWhitespace(suffixToTheRightOfCursor)) = 0
    THEN [predictionType |-> "multi-line-start-on-next-line",
          shouldGenerate |-> TRUE,
          llmPrefix |-> prefix \o _ln,
          llmSuffix |-> suffix,
          stopTokens |-> <<_ln \o _ln>>]
    ELSE IF trim(prefixToTheLeftOfCursor) = <<>> /\ trim(suffixToTheRightOfCursor) = <<>>
    THEN [predictionType |-> "single-line-fill-middle",
          shouldGenerate |-> TRUE,
          llmPrefix |-> prefix,
          llmSuffix |-> suffix,
          stopTokens |-> allLinebreakSymbols]
    ELSE IF Len(removeAllWhitespace(suffixToTheRightOfCursor)) <= 3
    THEN [predictionType |-> "single-line-redo-suffix",
          shouldGenerate |-> TRUE,
          llmPrefix |-> prefix,
          llmSuffix |-> suffix,
          stopTokens |-> allLinebreakSymbols]
    ELSE IF ~(Len(removeAllWhitespace(prefixToTheLeftOfCursor)) = 0)
    THEN [predictionType |-> "single-line-fill-middle",
          shouldGenerate |-> TRUE,
          llmPrefix |-> prefix,
          llmSuffix |-> suffix,
          stopTokens |-> allLinebreakSymbols]
    ELSE [predictionType |-> "do-not-predict",
          shouldGenerate |-> FALSE,
          llmPrefix |-> prefix,
          llmSuffix |-> suffix,
          stopTokens |-> <<>>]

\* getCompletionOptions after the prefix and the suffix are cut to 25 lines
CompletionOptionsFor(prefixToTheLeftOfCursor, suffixToTheRightOfCursor, justAcceptedAutocompletion, prefix, suffix, suffixLines) ==
    IF justAcceptedAutocompletion /\ Len(removeAllWhitespace(suffixToTheRightOfCursor)) = 0
    THEN [predictionType |-> "multi-line-start-on-next-line",
          shouldGenerate |-> TRUE,
          llmPrefix |-> prefix \o _ln,
          llmSuffix |-> suffix,
          stopTokens |-> <<_ln \o _ln>>]
    ELSE IF trim(prefixToTheLeftOfCursor) = <<>> /\ trim(suffixToTheRightOfCursor) = <<>>
    THEN [predictionType |-> "single-line-fill-middle",
          shouldGenerate |-> TRUE,
          llmPrefix |-> prefix,
          llmSuffix |-> suffix,
          stopTokens |-> allLinebreakSymbols]
    ELSE IF Len(removeAllWhitespace(suffixToTheRightOfCursor)) <= 3
    THEN [predictionType |-> "single-line-redo-suffix",
          shouldGenerate |-> TRUE,
          llmPrefix |-> prefix,
          llmSuffix |-> IF Len(Tail(suffixLines)) = 0 THEN <<>>
                        ELSE _ln \o join(Tail(suffixLines), _ln),
          stopTokens |-> allLinebreakSymbols]
    ELSE IF ~(Len(removeAllWhitespace(prefixToTheLeftOfCursor)) = 0)
    THEN [predictionType |-> "single-line-fill-middle",
          shouldGenerate |-> TRUE,
          llmPrefix |-> prefix,
          llmSuffix |-> suffix,
          stopTokens |-> allLinebreakSymbols]
    ELSE [predictionType |-> "do-not-predict",
          shouldGenerate |-> FALSE,
          llmPrefix |-> prefix,
          llmSuffix |-> suffix,
          stopTokens |-> <<>>]

CompletionOptionsOfLines(prefixAndSuffix, justAcceptedAutocompletion, prefixLines, suffixLines) ==
    CompletionOptionsFor(prefixAndSuffix.prefixToTheLeftOfCursor,
                         prefixAndSuffix.suffixToTheRightOfCursor,
                         justAcceptedAutocompletion,
                         join(prefixLines, _ln), join(suffixLines, _ln), suffixLines)

getCompletionOptions(prefixAndSuffix, relevantContext, justAcceptedAutocompletion) ==
    CompletionOptionsOfLines(prefixAndSuffix, justAcceptedAutocompletion,
                             LastLines(split(prefixAndSuffix.prefix, _ln), 25),
                             FirstLines(split(prefixAndSuffix.suffix, _ln), 25))

\* --------------------------------------------------------------- LRUCache

\* new LRUCache(maxSize, disposeCallback) for maxSize > 0 (the constructor throws
\* otherwise). items is the Map in its iteration (first insertion) order.
LRUCache(maxSize) == [items |-> <<>>, keyOrder |-> <<>>, maxSize |-> maxSize]

LRUKeys(c) == {c.items[i].key : i \in 1..Len(c.items)}
LRUHas(c, key) == key \in LRUKeys(c)
LRUSize(c) == Len(c.items)
\* this.items.get(key): the value, or undefined
LRUGet(c, key) ==
    IF LRUHas(c, key)
    THEN Some((CHOOSE i \in 1..Len(c.items) : c.items[i].key = key))
    ELSE None
LRUValue(c, key) == c.items[LRUGet(c, key)[1]].value

SelectSeqNot(s, x) == SelectSeq(s, LAMBDA k : k # x)
ItemsWithout(items, key) == SelectSeq(items, LAMBDA e : e.key # key)
\* a set that puts a new key first in the iteration order
ItemsSet_prepend(items, key, value) ==
    IF \E i \in 1..Len(items) : items[i].key = key
    THEN [i \in 1..Len(items) |->
            IF items[i].key = key THEN [key |-> key, value |-> value] ELSE items[i]]
    ELSE <<[key |-> key, value |-> value]>> \o items

\* Map.set: an existing key keeps its place, a new key goes last
ItemsSet(items, key, value) ==
    IF \E i \in 1..Len(items) : items[i].key = key
    THEN [i \in 1..Len(items) |->
            IF items[i].key = key THEN [key |-> key, value |-> value] ELSE items[i]]
    ELSE Append(items, [key |-> key, value |-> value])

\* One call of disposeCallback(value, key), with whether the entry was still in
\* the Map when the callback ran.
DisposeCall(c, key, value) == [key |-> key, value |-> value, present |-> LRUHas(c, key)]

\* LRUCache.set with the fullness test written > instead of >=
LRUSet_offByOne(c, key, value) ==
    IF LRUHas(c, key)
    THEN [cache |-> [c EXCEPT !.items = ItemsSet(c.items, key, value),
                              !.keyOrder = Append(SelectSeqNot(c.keyOrder, key), key)],
          disposed |-> <<>>]
    ELSE IF LRUSize(c) > c.maxSize
    THEN LET old == c.keyOrder[1]
             rest == ItemsWithout(c.items, old)
         IN  [cache |-> [c EXCEPT !.items = ItemsSet(rest, key, value),
                                  !.keyOrder = Append(Tail(c.keyOrder), key)],
              disposed |-> <<DisposeCall(c, old, LRUValue(c, old))>>]
    ELSE [cache |-> [c EXCEPT !.items = ItemsSet(c.items, key, value),
                              !.keyOrder = Append(c.keyOrder, key)],
          disposed |-> <<>>]

\* LRUCache.set that leaves keyOrder alone when the key is already held
LRUSet_noRefresh(c, key, value) ==
    IF LRUHas(c, key)
    THEN [cache |-> [c EXCEPT !.items = ItemsSet(c.items, key, value)],
          disposed |-> <<>>]
    ELSE IF LRUSize(c) >= c.maxSize
    THEN LET old == c.keyOrder[1]
             rest == ItemsWithout(c.items, old)
         IN  [cache |-> [c EXCEPT !.items = ItemsSet(rest, key, value),
                                  !.keyOrder = Append(Tail(c.keyOrder), key)],
              disposed |-> <<DisposeCall(c, old, LRUValue(c, old))>>]
    ELSE [cache |-> [c EXCEPT !.items = ItemsSet(c.items, key, value),
                              !.keyOrder = Append(c.keyOrder, key)],
          disposed |-> <<>>]

\* LRUCache.set(key, value): the cache after the call and the dispose calls made
\* (the callback runs before the entry leaves the Map)
LRUSet(c, key, value) ==
    IF LRUHas(c, key)
    THEN [cache |-> [c EXCEPT !.items = ItemsSet(c.items, key, value),
                              !.keyOrder = Append(SelectSeqNot(c.keyOrder, key), key)],
          disposed |-> <<>>]
    ELSE IF LRUSize(c) >= c.maxSize
    THEN LET old == c.keyOrder[1]
             rest == ItemsWithout(c.items, old)
         IN  [cache |-> [c EXCEPT !.items = ItemsSet(rest, key, value),
                                  !.keyOrder = Append(Tail(c.keyOrder), key)],
              disposed |-> <<DisposeCall(c, old, LRUValue(c, old))>>]
    ELSE [cache |-> [c EXCEPT !.items = ItemsSet(c.items, key, value),
                              !.keyOrder = Append(c.keyOrder, key)],
          disposed |-> <<>>]

\* a delete that removes the entry without calling the disposal callback
LRUDelete_noDispose(c, key) ==
    IF LRUHas(c, key)
    THEN [cache |-> [c EXCEPT !.items = ItemsWithout(c.items, key),
                              !.keyOrder = SelectSeqNot(c.keyOrder, key)],
          disposed |-> <<>>,
          ret |-> TRUE]
    ELSE [cache |-> c, disposed |-> <<>>, ret |-> FALSE]

\* LRUCache.delete(key): the cache after the call, the dispose calls, the result
LRUDelete(c, key) ==
    IF LRUHas(c, key)
    THEN [cache |-> [c EXCEPT !.items = ItemsWithout(c.items, key),
                              !.keyOrder = SelectSeqNot(c.keyOrder, key)],
          disposed |-> <<DisposeCall(c, key, LRUValue(c, key))>>,
          ret |-> TRUE]
    ELSE [cache |-> c, disposed |-> <<>>, ret |-> FALSE]

\* LRUCache.clear()
LRUClear(c) ==
    [cache |-> [c EXCEPT !.items = <<>>, !.keyOrder = <<>>],
     disposed |-> [i \in 1..Len(c.items) |->
                      DisposeCall(c, c.items[i].key, c.items[i].value)]]

\* ------------------------------------------------- SpecLRU: the container

LruKeySet == 1..MaxKeys
LruValues == {"v", "w"}

NoOp ==
    [op |-> "new", key |-> 0, pre |-> LRUCache(1), preRecency |-> <<>>,
     disposed |-> <<>>, ret |-> FALSE]

\* the recency history after an operation: the key just set goes last, and the
\* keys the cache no longer holds are dropped
Recency(order, held, setKey) ==
    LET kept == SelectSeq(order, LAMBDA k : k \in held /\ ~(k \in setKey))
    IN  IF setKey = {} THEN kept ELSE Append(kept, CHOOSE k \in setKey : TRUE)

\* the service's variables while only the container is exercised
SvcIdle ==
    /\ now = 0
    /\ nTicks = 0
    /\ limits = [calls |-> 0, ticks |-> 0, tickSteps |-> {}, settled |-> 0, accepts |-> 0,
                 docs |-> {}, buffers |-> {}]
    /\ _autocompletionId = 0
    /\ _autocompletionsOfDocument = <<>>
    /\ _lastCompletionStart = 0
    /\ _lastCompletionAccept = 0
    /\ autocompletions = <<>>
    /\ llmRequests = <<>>
    /\ timeoutTimers = {}
    /\ calls = <<>>
    /\ abortLog = <<>>

LruInit ==
    /\ isWindows = FALSE
    /\ FnIdle
    /\ SvcIdle
    /\ \E maxSize \in 1..MaxSize : lru = LRUCache(maxSize)
    /\ lruLast = [NoOp EXCEPT !.pre = lru]
    /\ lruRecency = <<>>

LruSetStep ==
    \E key \in LruKeySet, value \in LruValues :
        LET r == LRUSet(lru, key, value)
        IN  /\ lru' = r.cache
            /\ lruLast' = [op |-> "set", key |-> key, pre |-> lru, preRecency |-> lruRecency,
                           disposed |-> r.disposed, ret |-> FALSE]
            /\ lruRecency' = Recency(lruRecency, LRUKeys(r.cache), {key})
            /\ UNCHANGED <<envVars, svcVars>>

LruDeleteStep ==
    \E key \in LruKeySet :
        LET r == LRUDelete(lru, key)
        IN  /\ lru' = r.cache
            /\ lruLast' = [op |-> "delete", key |-> key, pre |-> lru, preRecency |-> lruRecency,
                           disposed |-> r.disposed, ret |-> r.ret]
            /\ lruRecency' = Recency(lruRecency, LRUKeys(r.cache), {})
            /\ UNCHANGED <<envVars, svcVars>>

LruClearStep ==
    LET r == LRUClear(lru)
    IN  /\ lru' = r.cache
        /\ lruLast' = [op |-> "clear", key |-> 0, pre |-> lru, preRecency |-> lruRecency,
                       disposed |-> r.disposed, ret |-> FALSE]
        /\ lruRecency' = Recency(lruRecency, LRUKeys(r.cache), {})
        /\ UNCHANGED <<envVars, svcVars>>

LruNext == LruSetStep \/ LruDeleteStep \/ LruClearStep

SpecLRU == LruInit /\ [][LruNext]_vars

\* the last operation was a set of a key not held, on a full cache
LruEvictingSet ==
    /\ lruLast.op = "set"
    /\ ~LRUHas(lruLast.pre, lruLast.key)
    /\ LRUSize(lruLast.pre) >= lruLast.pre.maxSize

\* C2: after any sequence of set, delete and clear an LRUCache holds at most
\* maxSize entries (the document caches are LRUCache(MAX_CACHE_SIZE)).
C2_SizeBound == LRUSize(lru) <= lru.maxSize /\ Len(lru.keyOrder) <= lru.maxSize

C2_Witness == LruEvictingSet /\ LRUSize(lru) = lru.maxSize /\ lru.maxSize > 1

\* C3: a set of a key not held, on a full cache, removes exactly one entry, the
\* one least recently set, and calls the disposal callback exactly once, on that
\* entry while it is still held; every other entry stays, with its value.
C3_EvictsLeastRecentlySet ==
    LruEvictingSet =>
        LET pre == lruLast.pre
            old == lruLast.preRecency[1]
        IN  /\ Cardinality(LRUKeys(pre) \ LRUKeys(lru)) = 1
            /\ LRUKeys(lru) = (LRUKeys(pre) \ {old}) \cup {lruLast.key}
            /\ lruLast.disposed =
                   <<[key |-> old, value |-> LRUValue(pre, old), present |-> TRUE]>>
            /\ \A k \in LRUKeys(pre) \ {old} : LRUValue(lru, k) = LRUValue(pre, k)

C3_Witness ==
    /\ LruEvictingSet
    /\ lruLast.pre.maxSize > 1
    /\ lruLast.pre.items[1].key # lruLast.pre.keyOrder[1]
    /\ Len(lruLast.disposed) = 1

\* C20: delete(k) on a held key calls the disposal callback exactly once, on the
\* key's value while it is still held, removes that entry only and returns true;
\* delete(k) on a key not held returns false, calls nothing and leaves the cache
\* as it was (so a second delete of the same key disposes nothing).
C20_DeleteDisposesOnce ==
    lruLast.op = "delete" =>
        LET pre == lruLast.pre
            key == lruLast.key
        IN  IF LRUHas(pre, key)
            THEN /\ lruLast.ret = TRUE
                 /\ lruLast.disposed =
                        <<[key |-> key, value |-> LRUValue(pre, key), present |-> TRUE]>>
                 /\ LRUKeys(lru) = LRUKeys(pre) \ {key}
                 /\ \A k \in LRUKeys(lru) : LRUValue(lru, k) = LRUValue(pre, k)
                 /\ lru.keyOrder = SelectSeqNot(pre.keyOrder, key)
                 /\ ~LRUHas(LRUDelete(lru, key).cache, key)
                 /\ LRUDelete(lru, key).disposed = <<>>
                 /\ LRUDelete(lru, key).ret = FALSE
            ELSE /\ lruLast.ret = FALSE
                 /\ lruLast.disposed = <<>>
                 /\ lru = pre

\* a delete of a held key from a cache that keeps another entry
C20_Witness ==
    /\ lruLast.op = "delete"
    /\ LRUHas(lruLast.pre, lruLast.key)
    /\ Len(lruLast.disposed) = 1
    /\ LRUSize(lru) = 1
    /\ lruLast.ret

\* ---------------------------------------------- Spec: AutocompleteService

\* the documents of the runs on one document, and of the runs on two
Docs == {"a.ts"}
TwoDocs == {"a.ts", "b.ts"}

\* the buffer states a call or a disposal can see: the text and the cursor offset
Buffers ==
    { [fullText |-> <<"a">>, cursorOffset |-> 1],
      [fullText |-> <<"a", "b">>, cursorOffset |-> 2],
      [fullText |-> <<"w", "x", "y", "z">>, cursorOffset |-> 0] }

\* the texts the model service answers with
Responses == { <<"b">> }

\* what gatherLSPContext returns (no provider contributes)
LspContexts == { <<>> }

\* how far the clock may jump in one step
TickSteps == {DEBOUNCE_TIME, TIMEOUT_TIME}

\* the bounds a run is explored under: a burst of calls within less than
\* TIMEOUT_TIME and without acceptances, or fewer calls with every timer and
\* with acceptances
Scenarios ==
    { [calls |-> MaxCalls, ticks |-> MaxTicks, tickSteps |-> {DEBOUNCE_TIME},
       settled |-> MaxCalls, accepts |-> 0, docs |-> Docs, buffers |-> Buffers],
      [calls |-> MaxCalls - 1, ticks |-> MaxTicks - 1, tickSteps |-> TickSteps,
       settled |-> MaxCalls - 1, accepts |-> MaxAccepts, docs |-> Docs, buffers |-> Buffers] }

PrefixAndSuffixOf(buf) == getPrefixAndSuffixInfo(buf.fullText, buf.cursorOffset)

\* the buffer of a call that returns before it reads the model
NoBuffer == [fullText |-> <<>>, cursorOffset |-> 0]

\* a call that has returned `result` along `path`
Returned(call, path, result) ==
    [call EXCEPT !.pc = "done", !.path = path, !.result = result,
                 !.thisTime = 0, !.justAcceptedAutocompletion = FALSE,
                 !.autocompletionMatchup = None]

NewCall(doc, buf) ==
    [pc |-> "start", docUriStr |-> doc, buf |-> buf, thisTime |-> 0,
     justAcceptedAutocompletion |-> FALSE, aid |-> -1,
     autocompletionMatchup |-> None, path |-> "", result |-> <<>>]

\* llmMessageService.abort(requestId): a request still running is asked to stop.
\* A request is "inflight", then "aborting" once abort is called on it, and ends
\* with the one callback the service makes: "final", "error" or "aborted".
ServiceAbort(requests, requestId) ==
    IF requests[requestId] = "inflight"
    THEN [requests EXCEPT ![requestId] = "aborting"] ELSE requests

\* the dispose callback of the document caches, applied to the dispose calls of
\* one cache operation: abort the request of every value that holds a requestId
\* (heap: the Autocompletion objects as they are when the callback runs)
RECURSIVE DisposeAll(_, _, _, _, _)
DisposeAll(disposed, by, heap, requests, log) ==
    IF disposed = <<>> THEN [requests |-> requests, log |-> log]
    ELSE LET autocompletion == heap[disposed[1].value]
         IN  IF autocompletion.requestId # None
             THEN DisposeAll(Tail(disposed), by, heap,
                             ServiceAbort(requests, autocompletion.requestId[1]),
                             Append(log, [requestId |-> autocompletion.requestId[1],
                                          by |-> by,
                                          status |-> autocompletion.status,
                                          llmPromise |-> autocompletion.llmPromise]))
             ELSE DisposeAll(Tail(disposed), by, heap, requests, log)

\* a lookup that takes the last entry of the Map whose matchup succeeds
FirstMatchup_last(items, matchups) ==
    LET hits == {i \in 1..Len(items) : matchups[i] # None}
    IN  IF hits = {} THEN None
        ELSE Some([id |-> items[MaxOf(hits)].value,
                   autocompletionMatchup |-> matchups[MaxOf(hits)][1]])

\* the loop of the cache lookup over the Map's entries, given the matchup of
\* each with the current prefix: the first entry whose matchup succeeds
FirstMatchup(items, matchups) ==
    LET hits == {i \in 1..Len(items) : matchups[i] # None}
    IN  IF hits = {} THEN None
        ELSE Some([id |-> items[MinOf(hits)].value,
                   autocompletionMatchup |-> matchups[MinOf(hits)][1]])

\* "get autocompletion from cache"
CacheLookup(cache, prefix) ==
    FirstMatchup(cache.items,
                 [i \in 1..Len(cache.items) |->
                     getAutocompletionMatchup(prefix, autocompletions[cache.items[i].value])])

Init ==
    /\ isWindows = FALSE
    /\ FnIdle
    /\ lru = LRUCache(1)
    /\ lruLast = NoOp
    /\ lruRecency = <<>>
    /\ now = StartTime
    /\ nTicks = 0
    /\ limits \in Scenarios
    /\ _autocompletionId = 0
    /\ _autocompletionsOfDocument = <<>>
    /\ _lastCompletionStart = 0
    /\ _lastCompletionAccept = 0
    /\ autocompletions = <<>>
    /\ llmRequests = <<>>
    /\ timeoutTimers = {}
    /\ calls = <<>>
    /\ abortLog = <<>>

\* time passes
Tick ==
    /\ nTicks < limits.ticks
    /\ \E d \in limits.tickSteps : now' = now + d
    /\ nTicks' = nTicks + 1
    /\ UNCHANGED <<envVars, lruVars, limits, _autocompletionId,
                   _autocompletionsOfDocument, _lastCompletionStart, _lastCompletionAccept, autocompletions,
                   llmRequests, timeoutTimers, calls, abortLog>>

\* a hit on a pending Autocompletion that returns nothing at once instead of
\* waiting for it
CachedCall_noWait(call, prefixAndSuffix, cachedAutocompletion, autocompletionMatchup) ==
    IF cachedAutocompletion.status = "finished"
    THEN Returned(call, "hit-finished",
                  toInlineCompletions(autocompletionMatchup, cachedAutocompletion,
                                      prefixAndSuffix))
    ELSE Returned(call, "hit-error", <<>>)

\* "if there is a cached autocompletion, return it": the call after the branch
\* on the status of the cached Autocompletion
CachedCall(call, prefixAndSuffix, cachedAutocompletion, autocompletionMatchup) ==
    IF cachedAutocompletion.status = "finished"
    THEN Returned(call, "hit-finished",
                  toInlineCompletions(autocompletionMatchup, cachedAutocompletion,
                                      prefixAndSuffix))
    ELSE IF cachedAutocompletion.status = "pending"
    THEN [call EXCEPT !.pc = "await-hit", !.aid = cachedAutocompletion.id,
                      !.autocompletionMatchup = Some(autocompletionMatchup)]
    ELSE Returned(call, "hit-error", <<>>)

\* a lookup that counts a cache hit as a keystroke of the debounce
ProvideFromLookup_stamps(call, prefixAndSuffix, hit) ==
    /\ _lastCompletionStart' = now
    /\ calls' = Append(calls,
          IF hit # None
          THEN CachedCall([call EXCEPT !.aid = hit[1].id], prefixAndSuffix,
                          autocompletions[hit[1].id], hit[1].autocompletionMatchup)
          ELSE [call EXCEPT !.pc = "debounce", !.thisTime = now,
                   !.justAcceptedAutocompletion = (now - _lastCompletionAccept < 500)])

\* _provideInlineCompletionItems from the cache lookup to the first wait
ProvideFromLookup(call, prefixAndSuffix, hit) ==
    IF hit # None
    THEN /\ calls' = Append(calls,
                CachedCall([call EXCEPT !.aid = hit[1].id], prefixAndSuffix,
                           autocompletions[hit[1].id], hit[1].autocompletionMatchup))
         /\ UNCHANGED _lastCompletionStart
    ELSE /\ calls' = Append(calls,
                [call EXCEPT !.pc = "debounce", !.thisTime = now,
                    !.justAcceptedAutocompletion = (now - _lastCompletionAccept < 500)])
         /\ _lastCompletionStart' = now

\* "initialize cache if it doesnt exist"
CachesWith(docUriStr) ==
    IF docUriStr \in DOMAIN _autocompletionsOfDocument
    THEN _autocompletionsOfDocument
    ELSE (docUriStr :> LRUCache(MAX_CACHE_SIZE)) @@ _autocompletionsOfDocument

\* a provider that creates the document's cache before it looks at the setting
ProvideInlineCompletionItems_cacheFirst ==
    /\ Len(calls) < limits.calls
    /\ \E docUriStr \in limits.docs, buf \in limits.buffers, isEnabled \in BOOLEAN :
        /\ _autocompletionsOfDocument' = CachesWith(docUriStr)
        /\ IF ~isEnabled
           THEN /\ calls' = Append(calls, Returned(NewCall(docUriStr, NoBuffer), "disabled", <<>>))
                /\ UNCHANGED _lastCompletionStart
           ELSE ProvideFromLookup(NewCall(docUriStr, buf), PrefixAndSuffixOf(buf),
                    CacheLookup(CachesWith(docUriStr)[docUriStr],
                                PrefixAndSuffixOf(buf).prefix))
    /\ UNCHANGED <<envVars, lruVars, now, nTicks, limits, _autocompletionId,
                   _lastCompletionAccept, autocompletions, llmRequests, timeoutTimers,
                   abortLog>>

\* _provideInlineCompletionItems(model, position) up to its first wait
ProvideInlineCompletionItems ==
    /\ Len(calls) < limits.calls
    /\ \E docUriStr \in limits.docs, buf \in limits.buffers, isEnabled \in BOOLEAN :
        IF ~isEnabled
        THEN /\ calls' = Append(calls, Returned(NewCall(docUriStr, NoBuffer), "disabled", <<>>))
             /\ UNCHANGED <<_autocompletionsOfDocument, _lastCompletionStart>>
        ELSE /\ _autocompletionsOfDocument' = CachesWith(docUriStr)
             /\ ProvideFromLookup(NewCall(docUriStr, buf), PrefixAndSuffixOf(buf),
                    CacheLookup(CachesWith(docUriStr)[docUriStr],
                                PrefixAndSuffixOf(buf).prefix))
    /\ UNCHANGED <<envVars, lruVars, now, nTicks, limits, _autocompletionId,
                   _lastCompletionAccept, autocompletions, llmRequests, timeoutTimers,
                   abortLog>>

\* the timers not yet fired and their deadlines; timers fire in deadline order,
\* and among equal deadlines in the order they were set
DebounceWaiting == {c \in 1..Len(calls) : calls[c].pc = "debounce"}
DebounceDeadline(c) == calls[c].thisTime + DEBOUNCE_TIME
TimeoutDeadline(id) == autocompletions[id].startTime + TIMEOUT_TIME

DebounceMayFire(c) ==
    /\ c \in DebounceWaiting
    /\ now >= DebounceDeadline(c)
    /\ \A c2 \in DebounceWaiting :
           \/ DebounceDeadline(c2) > DebounceDeadline(c)
           \/ DebounceDeadline(c2) = DebounceDeadline(c) /\ c2 >= c
    /\ \A id \in timeoutTimers : TimeoutDeadline(id) > DebounceDeadline(c)

TimeoutMayFire(id) ==
    /\ id \in timeoutTimers
    /\ now >= TimeoutDeadline(id)
    /\ \A id2 \in timeoutTimers :
           \/ TimeoutDeadline(id2) > TimeoutDeadline(id)
           \/ TimeoutDeadline(id2) = TimeoutDeadline(id) /\ id2 >= id
    /\ \A c \in DebounceWaiting : DebounceDeadline(c) >= TimeoutDeadline(id)

\* the ids of the pending Autocompletions of a cache, in the Map's order
PendingIds(cache) ==
    SelectSeq([i \in 1..Len(cache.items) |-> cache.items[i].value],
              LAMBDA id : autocompletions[id].status = "pending")

\* the pending-limit step cancelling the newest pending request instead
PendingLimitStep_newest(cache) ==
    LET pending == PendingIds(cache)
    IN  IF Len(pending) >= MAX_PENDING_REQUESTS
        THEN LRUDelete(cache, pending[Len(pending)])
        ELSE [cache |-> cache, disposed |-> <<>>, ret |-> FALSE]

\* "if there are too many pending requests, cancel the oldest one": the delete
\* the loop makes, if any
PendingLimitStep(cache) ==
    LET pending == PendingIds(cache)
    IN  IF Len(pending) >= MAX_PENDING_REQUESTS
        THEN LRUDelete(cache, pending[1])
        ELSE [cache |-> cache, disposed |-> <<>>, ret |-> FALSE]

\* the debounce timer of call c fires; the call goes on to gatherLSPContext
DebounceFire ==
    \E c \in 1..Len(calls) :
        /\ DebounceMayFire(c)
        /\ LET call == calls[c]
               didTypingHappenDuringDebounce == _lastCompletionStart # call.thisTime
               r == PendingLimitStep(_autocompletionsOfDocument[call.docUriStr])
               d == DisposeAll(r.disposed, "pending-limit", autocompletions,
                               llmRequests, abortLog)
           IN  IF didTypingHappenDuringDebounce
               THEN /\ calls' = [calls EXCEPT ![c] = Returned(call, "typing", <<>>)]
                    /\ UNCHANGED <<_autocompletionsOfDocument, llmRequests, abortLog>>
               ELSE /\ calls' = [calls EXCEPT ![c].pc = "lsp"]
                    /\ _autocompletionsOfDocument' =
                           [_autocompletionsOfDocument EXCEPT ![call.docUriStr] = r.cache]
                    /\ llmRequests' = d.requests
                    /\ abortLog' = d.log
        /\ UNCHANGED <<envVars, lruVars, now, nTicks, limits, _autocompletionId,
                       _lastCompletionStart, _lastCompletionAccept, autocompletions,
                       timeoutTimers>>

\* a provider that takes the id of the Autocompletion before it asks whether to
\* generate one
LspContextGathered_consumesId ==
    \E c \in 1..Len(calls), lspContext \in LspContexts :
        /\ calls[c].pc = "lsp"
        /\ LET call == calls[c]
               prefixAndSuffix == PrefixAndSuffixOf(call.buf)
               options == getCompletionOptions(prefixAndSuffix, lspContext,
                                               call.justAcceptedAutocompletion)
               id == _autocompletionId
               newAutocompletion ==
                   [id |-> id,
                    prefix |-> prefixAndSuffix.prefix,
                    suffix |-> prefixAndSuffix.suffix,
                    llmPrefix |-> options.llmPrefix,
                    llmSuffix |-> options.llmSuffix,
                    startTime |-> now,
                    endTime |-> None,
                    type |-> options.predictionType,
                    status |-> "pending",
                    llmPromise |-> "pending",
                    insertText |-> <<>>,
                    requestId |-> Some(id),
                    _newlineCount |-> 0]
               r == LRUSet(_autocompletionsOfDocument[call.docUriStr], id, id)
               d == DisposeAll(r.disposed, "capacity", autocompletions,
                               (id :> "inflight") @@ llmRequests, abortLog)
           IN  IF ~options.shouldGenerate
               THEN /\ calls' = [calls EXCEPT ![c] = Returned(call, "do-not-predict", <<>>)]
                    /\ _autocompletionId' = id + 1
                    /\ UNCHANGED <<_autocompletionsOfDocument,
                                   autocompletions, llmRequests, timeoutTimers, abortLog>>
               ELSE /\ _autocompletionId' = id + 1
                    /\ autocompletions' = (id :> newAutocompletion) @@ autocompletions
                    /\ timeoutTimers' = timeoutTimers \cup {id}
                    /\ _autocompletionsOfDocument' =
                           [_autocompletionsOfDocument EXCEPT ![call.docUriStr] = r.cache]
                    /\ llmRequests' = d.requests
                    /\ abortLog' = d.log
                    /\ calls' = [calls EXCEPT ![c].pc = "await-new", ![c].aid = id]
        /\ UNCHANGED <<envVars, lruVars, now, nTicks, limits, _lastCompletionStart,
                       _lastCompletionAccept>>

\* gatherLSPContext has returned: classify, and if a request is to be made create
\* the Autocompletion, send the request, set the timeout and cache the entry
LspContextGathered ==
    \E c \in 1..Len(calls), lspContext \in LspContexts :
        /\ calls[c].pc = "lsp"
        /\ LET call == calls[c]
               prefixAndSuffix == PrefixAndSuffixOf(call.buf)
               options == getCompletionOptions(prefixAndSuffix, lspContext,
                                               call.justAcceptedAutocompletion)
               id == _autocompletionId
               newAutocompletion ==
                   [id |-> id,
                    prefix |-> prefixAndSuffix.prefix,
                    suffix |-> prefixAndSuffix.suffix,
                    llmPrefix |-> options.llmPrefix,
                    llmSuffix |-> options.llmSuffix,
                    startTime |-> now,
                    endTime |-> None,
                    type |-> options.predictionType,
                    status |-> "pending",
                    llmPromise |-> "pending",
                    insertText |-> <<>>,
                    requestId |-> Some(id),
                    _newlineCount |-> 0]
               r == LRUSet(_autocompletionsOfDocument[call.docUriStr], id, id)
               d == DisposeAll(r.disposed, "capacity", autocompletions,
                               (id :> "inflight") @@ llmRequests, abortLog)
           IN  IF ~options.shouldGenerate
               THEN /\ calls' = [calls EXCEPT ![c] = Returned(call, "do-not-predict", <<>>)]
                    /\ UNCHANGED <<_autocompletionId, _autocompletionsOfDocument,
                                   autocompletions, llmRequests, timeoutTimers, abortLog>>
               ELSE /\ _autocompletionId' = id + 1
                    /\ autocompletions' = (id :> newAutocompletion) @@ autocompletions
                    /\ timeoutTimers' = timeoutTimers \cup {id}
                    /\ _autocompletionsOfDocument' =
                           [_autocompletionsOfDocument EXCEPT ![call.docUriStr] = r.cache]
                    /\ llmRequests' = d.requests
                    /\ abortLog' = d.log
                    /\ calls' = [calls EXCEPT ![c].pc = "await-new", ![c].aid = id]
        /\ UNCHANGED <<envVars, lruVars, now, nTicks, limits, _lastCompletionStart,
                       _lastCompletionAccept>>

\* the calls waiting on the llmPromise of Autocompletion id
Awaiting(id) ==
    {c \in 1..Len(calls) : calls[c].pc \in {"await-new", "await-hit"} /\ calls[c].aid = id}

\* resolve(insertText): every call awaiting the promise returns its completion
ResolveCalls(id, autocompletion) ==
    [c \in 1..Len(calls) |->
        IF c \notin Awaiting(id) THEN calls[c]
        ELSE IF calls[c].pc = "await-new"
        THEN Returned(calls[c], "new-resolved",
                 toInlineCompletions([startIdx |-> 0, startLine |-> 0, startCharacter |-> 0],
                                     autocompletion, PrefixAndSuffixOf(calls[c].buf)))
        ELSE Returned(calls[c], "hit-resolved",
                 toInlineCompletions(calls[c].autocompletionMatchup[1],
                                     autocompletion, PrefixAndSuffixOf(calls[c].buf)))]

\* awaiting calls that show the Autocompletion's text although its promise is
\* rejected
RejectCalls_shows(id) ==
    [c \in 1..Len(calls) |->
        IF c \notin Awaiting(id) THEN calls[c]
        ELSE Returned(calls[c],
                 IF calls[c].pc = "await-new" THEN "new-rejected" ELSE "hit-rejected",
                 toInlineCompletions([startIdx |-> 0, startLine |-> 0, startCharacter |-> 0],
                                     autocompletions[id], PrefixAndSuffixOf(calls[c].buf)))]

\* reject(...): every call awaiting the promise deletes the entry and returns []
RejectCalls(id) ==
    [c \in 1..Len(calls) |->
        IF c \notin Awaiting(id) THEN calls[c]
        ELSE Returned(calls[c],
                 IF calls[c].pc = "await-new" THEN "new-rejected" ELSE "hit-rejected", <<>>)]

\* catch blocks that leave the entry in the cache
RejectDelete_keeps(id) == [caches |-> _autocompletionsOfDocument, disposed |-> <<>>]

\* catch blocks whose delete disposes the Autocompletion whether or not the
\* cache still holds it
RejectDelete_again(id) ==
    LET waiting == Awaiting(id)
        doc == calls[MinOf(waiting)].docUriStr
        r == LRUDelete(_autocompletionsOfDocument[doc], id)
    IN  IF waiting = {} THEN [caches |-> _autocompletionsOfDocument, disposed |-> <<>>]
        ELSE [caches |-> [_autocompletionsOfDocument EXCEPT ![doc] = r.cache],
              disposed |-> <<DisposeCall(_autocompletionsOfDocument[doc], id, id)>>]

\* the deletes of the catch blocks of the calls awaiting id (all on the cache of
\* one document): the first removes the entry if the cache still holds it, the
\* others find it gone
RejectDelete(id) ==
    LET waiting == Awaiting(id)
        doc == calls[MinOf(waiting)].docUriStr
        r == LRUDelete(_autocompletionsOfDocument[doc], id)
    IN  IF waiting = {} THEN [caches |-> _autocompletionsOfDocument, disposed |-> <<>>]
        ELSE [caches |-> [_autocompletionsOfDocument EXCEPT ![doc] = r.cache],
              disposed |-> r.disposed]

\* reject(reason) on the llmPromise of id, with the Autocompletion objects as the
\* handler left them: a promise already settled stays as it is; otherwise the
\* awaiting calls run their catch blocks
Reject(id, heap, requests) ==
    IF heap[id].llmPromise # "pending"
    THEN /\ autocompletions' = heap
         /\ llmRequests' = requests
         /\ UNCHANGED <<_autocompletionsOfDocument, calls, abortLog>>
    ELSE LET heap2 == [heap EXCEPT ![id].llmPromise = "rejected"]
             r == RejectDelete(id)
             d == DisposeAll(r.disposed, "catch", heap2, requests, abortLog)
         IN  /\ autocompletions' = heap2
             /\ _autocompletionsOfDocument' = r.caches
             /\ calls' = RejectCalls(id)
             /\ llmRequests' = d.requests
             /\ abortLog' = d.log

\* the requests the service has called back on
Settled == {id \in DOMAIN llmRequests : llmRequests[id] \in {"final", "error", "aborted"}}

\* the requests the service may still call back on
Running(id) ==
    /\ id \in DOMAIN llmRequests
    /\ llmRequests[id] \in {"inflight", "aborting"}
    /\ Cardinality(Settled) < limits.settled

\* onFinalMessage({ fullText })
OnFinalMessage ==
    \E id \in DOMAIN llmRequests, fullText \in Responses :
        /\ Running(id)
        /\ LET text == extractCodeFromRegular(fullText)
               insertText0 == processStartAndEndSpaces(text)
               insertText ==
                   IF autocompletions[id].type = "multi-line-start-on-next-line"
                   THEN _ln \o insertText0 ELSE insertText0
               finished == [autocompletions[id] EXCEPT
                               !.endTime = Some(now),
                               !.status = "finished",
                               !.insertText = insertText,
                               !.llmPromise = IF @ = "pending" THEN "resolved" ELSE @]
           IN  /\ autocompletions' = [autocompletions EXCEPT ![id] = finished]
               /\ calls' = IF autocompletions[id].llmPromise = "pending"
                           THEN ResolveCalls(id, finished) ELSE calls
        /\ llmRequests' = [llmRequests EXCEPT ![id] = "final"]
        /\ UNCHANGED <<envVars, lruVars, now, nTicks, limits, _autocompletionId,
                       _autocompletionsOfDocument, _lastCompletionStart,
                       _lastCompletionAccept, timeoutTimers, abortLog>>

\* onError({ message })
OnError ==
    \E id \in DOMAIN llmRequests :
        /\ Running(id)
        /\ Reject(id,
                  [autocompletions EXCEPT ![id].endTime = Some(now), ![id].status = "error"],
                  [llmRequests EXCEPT ![id] = "error"])
        /\ UNCHANGED <<envVars, lruVars, now, nTicks, limits, _autocompletionId,
                       _lastCompletionStart, _lastCompletionAccept, timeoutTimers>>

\* onAbort(): the service reports that an aborted request has stopped
OnAbort ==
    \E id \in DOMAIN llmRequests :
        /\ Running(id)
        /\ llmRequests[id] = "aborting"
        /\ Reject(id, autocompletions, [llmRequests EXCEPT ![id] = "aborted"])
        /\ UNCHANGED <<envVars, lruVars, now, nTicks, limits, _autocompletionId,
                       _lastCompletionStart, _lastCompletionAccept, timeoutTimers>>

\* a timer that sets the status to 'error' and rejects whatever the status is
Timeout_forcesError ==
    \E id \in timeoutTimers :
        /\ TimeoutMayFire(id)
        /\ timeoutTimers' = timeoutTimers \ {id}
        /\ Reject(id, [autocompletions EXCEPT ![id].status = "error"], llmRequests)
        /\ UNCHANGED <<envVars, lruVars, now, nTicks, limits, _autocompletionId,
                       _lastCompletionStart, _lastCompletionAccept>>

\* a TIMEOUT_TIME timer that fires without rejecting the promise
Timeout_silent ==
    \E id \in timeoutTimers :
        /\ TimeoutMayFire(id)
        /\ timeoutTimers' = timeoutTimers \ {id}
        /\ UNCHANGED <<envVars, lruVars, now, nTicks, limits, _autocompletionId,
                       _lastCompletionStart, _lastCompletionAccept, autocompletions,
                       llmRequests, _autocompletionsOfDocument, calls, abortLog>>

\* the TIMEOUT_TIME timer of Autocompletion id fires
Timeout ==
    \E id \in timeoutTimers :
        /\ TimeoutMayFire(id)
        /\ timeoutTimers' = timeoutTimers \ {id}
        /\ IF autocompletions[id].status = "pending"
           THEN Reject(id, autocompletions, llmRequests)
           ELSE UNCHANGED <<autocompletions, llmRequests, _autocompletionsOfDocument,
                            calls, abortLog>>
        /\ UNCHANGED <<envVars, lruVars, now, nTicks, limits, _autocompletionId,
                       _lastCompletionStart, _lastCompletionAccept>>

\* the entries freeInlineCompletions has removed so far
Accepts == Cardinality({i \in 1..Len(abortLog) : abortLog[i].by = "free"})

\* a forEach that stops at the first entry it removes
RECURSIVE FreeFrom_firstOnly(_, _, _, _)
FreeFrom_firstOnly(ids, prefix, cache, disposed) ==
    IF ids = <<>> \/ disposed # <<>> THEN [cache |-> cache, disposed |-> disposed]
    ELSE LET autocompletion == autocompletions[ids[1]]
             matchup == removeAllWhitespace(prefix)
                            = removeAllWhitespace(autocompletion.prefix
                                                    \o autocompletion.insertText)
             r == LRUDelete(cache, ids[1])
         IN  IF matchup
             THEN FreeFrom_firstOnly(Tail(ids), prefix, r.cache, disposed \o r.disposed)
             ELSE FreeFrom_firstOnly(Tail(ids), prefix, cache, disposed)

\* the forEach of freeInlineCompletions from entry i on: every entry whose
\* prefix + insertText equals the current prefix, whitespace aside, is deleted
RECURSIVE FreeFrom(_, _, _, _)
FreeFrom(ids, prefix, cache, disposed) ==
    IF ids = <<>> THEN [cache |-> cache, disposed |-> disposed]
    ELSE LET autocompletion == autocompletions[ids[1]]
             matchup == removeAllWhitespace(prefix)
                            = removeAllWhitespace(autocompletion.prefix
                                                    \o autocompletion.insertText)
             r == LRUDelete(cache, ids[1])
         IN  IF matchup
             THEN FreeFrom(Tail(ids), prefix, r.cache, disposed \o r.disposed)
             ELSE FreeFrom(Tail(ids), prefix, cache, disposed)

\* freeInlineCompletions(completions), with the active editor on docUriStr
FreeInlineCompletions ==
    \E docUriStr \in DOMAIN _autocompletionsOfDocument, buf \in limits.buffers :
        /\ Accepts < limits.accepts
        /\ LET cache == _autocompletionsOfDocument[docUriStr]
            prefix == PrefixAndSuffixOf(buf).prefix
            r == FreeFrom([i \in 1..Len(cache.items) |-> cache.items[i].value],
                          prefix, cache, <<>>)
            d == DisposeAll(r.disposed, "free", autocompletions, llmRequests, abortLog)
           IN  /\ _autocompletionsOfDocument' =
                      [_autocompletionsOfDocument EXCEPT ![docUriStr] = r.cache]
               /\ _lastCompletionAccept' =
                      IF r.disposed # <<>> THEN now ELSE _lastCompletionAccept
               /\ llmRequests' = d.requests
               /\ abortLog' = d.log
        /\ UNCHANGED <<envVars, lruVars, now, nTicks, limits, _autocompletionId,
                       _lastCompletionStart, autocompletions, timeoutTimers, calls>>

Next ==
    \/ Tick
    \/ ProvideInlineCompletionItems
    \/ DebounceFire
    \/ LspContextGathered
    \/ OnFinalMessage
    \/ OnError
    \/ OnAbort
    \/ Timeout
    \/ FreeInlineCompletions

Spec == Init /\ [][Next]_vars

\* ------------------------------------------------ SpecDocs: two documents

\* the run explored with two documents open
DocsScenario ==
    [calls |-> MaxCalls - 1, ticks |-> MaxTicks - 1, tickSteps |-> TickSteps,
     settled |-> MaxCalls - 2, accepts |-> MaxAccepts, docs |-> TwoDocs,
     buffers |-> Buffers]

InitDocs ==
    /\ isWindows = FALSE
    /\ FnIdle
    /\ lru = LRUCache(1)
    /\ lruLast = NoOp
    /\ lruRecency = <<>>
    /\ now = StartTime
    /\ nTicks = 0
    /\ limits = DocsScenario
    /\ _autocompletionId = 0
    /\ _autocompletionsOfDocument = <<>>
    /\ _lastCompletionStart = 0
    /\ _lastCompletionAccept = 0
    /\ autocompletions = <<>>
    /\ llmRequests = <<>>
    /\ timeoutTimers = {}
    /\ calls = <<>>
    /\ abortLog = <<>>

SpecDocs == InitDocs /\ [][Next]_vars

\* --------------------------------- SpecNextLine: a cursor on a blank line

\* the buffer states of the runs in which the cursor may stand on a blank line
NextLineBuffers ==
    { [fullText |-> <<"a">>, cursorOffset |-> 1],
      [fullText |-> <<"a", "\n">>, cursorOffset |-> 2] }

\* the run explored with acceptances followed by calls at the end of a line and
\* on a blank line
NextLineScenario ==
    [calls |-> MaxCalls - 1, ticks |-> MaxTicks - 1, tickSteps |-> TickSteps,
     settled |-> MaxCalls - 1, accepts |-> MaxAccepts, docs |-> Docs,
     buffers |-> NextLineBuffers]

InitNextLine ==
    /\ isWindows = FALSE
    /\ FnIdle
    /\ lru = LRUCache(1)
    /\ lruLast = NoOp
    /\ lruRecency = <<>>
    /\ now = StartTime
    /\ nTicks = 0
    /\ limits = NextLineScenario
    /\ _autocompletionId = 0
    /\ _autocompletionsOfDocument = <<>>
    /\ _lastCompletionStart = 0
    /\ _lastCompletionAccept = 0
    /\ autocompletions = <<>>
    /\ llmRequests = <<>>
    /\ timeoutTimers = {}
    /\ calls = <<>>
    /\ abortLog = <<>>

SpecNextLine == InitNextLine /\ [][Next]_vars

\* ------------------------------------------- SpecFair: timers that do fire

\* the run explored with timers that always get to fire
\* (the clock moves from deadline to deadline only)
LiveScenario ==
    [calls |-> LiveCalls, ticks |-> 0, tickSteps |-> {},
     settled |-> LiveSettled, accepts |-> MaxAccepts, docs |-> Docs, buffers |-> Buffers]

InitFair ==
    /\ isWindows = FALSE
    /\ FnIdle
    /\ lru = LRUCache(1)
    /\ lruLast = NoOp
    /\ lruRecency = <<>>
    /\ now = StartTime
    /\ nTicks = 0
    /\ limits = LiveScenario
    /\ _autocompletionId = 0
    /\ _autocompletionsOfDocument = <<>>
    /\ _lastCompletionStart = 0
    /\ _lastCompletionAccept = 0
    /\ autocompletions = <<>>
    /\ llmRequests = <<>>
    /\ timeoutTimers = {}
    /\ calls = <<>>
    /\ abortLog = <<>>

\* the deadlines of the timers set and not yet fired
Deadlines ==
    {DebounceDeadline(c) : c \in DebounceWaiting} \cup
    {TimeoutDeadline(id) : id \in timeoutTimers}

\* setTimeout: while a timer waits the clock goes on, here to the next deadline
ClockReachesDeadline ==
    /\ \E deadline \in Deadlines : deadline > now
    /\ now' = MinOf({deadline \in Deadlines : deadline > now})
    /\ UNCHANGED <<envVars, lruVars, nTicks, limits, _autocompletionId,
                   _autocompletionsOfDocument, _lastCompletionStart, _lastCompletionAccept,
                   autocompletions, llmRequests, timeoutTimers, calls, abortLog>>

NextFair ==
    \/ ClockReachesDeadline
    \/ ProvideInlineCompletionItems
    \/ DebounceFire
    \/ LspContextGathered
    \/ OnFinalMessage
    \/ OnError
    \/ OnAbort
    \/ Timeout
    \/ FreeInlineCompletions

\* every timer set gets to fire, and gatherLSPContext gets to return; the model
\* service is free never to call back
SpecFair ==
    /\ InitFair
    /\ [][NextFair]_vars
    /\ WF_vars(ClockReachesDeadline)
    /\ WF_vars(DebounceFire)
    /\ WF_vars(Timeout)
    /\ WF_vars(LspContextGathered)

\* ------------------------------------------------------ claims on Spec

CacheOf(doc) == _autocompletionsOfDocument[doc]

\* C1: in every reachable state the cache of every document holds at most
\* MAX_PENDING_REQUESTS Autocompletions with status 'pending'.
C1_AtMostMaxPending ==
    \A doc \in DOMAIN _autocompletionsOfDocument :
        Len(PendingIds(CacheOf(doc))) <= MAX_PENDING_REQUESTS

\* C4: in every step the status of an Autocompletion stays as it is or goes from
\* 'pending' to 'finished' or 'error'; 'finished' and 'error' are never left.
C4_StatusOnlyLeavesPending ==
    [][\A id \in DOMAIN autocompletions :
          autocompletions'[id].status # autocompletions[id].status
              => /\ autocompletions[id].status = "pending"
                 /\ autocompletions'[id].status \in {"finished", "error"}]_vars

\* an Autocompletion in a terminal status on which the timeout timer has fired
\* and whose entry has left the cache
C4_Witness ==
    \E id \in DOMAIN autocompletions :
        /\ autocompletions[id].status \in {"finished", "error"}
        /\ id \notin timeoutTimers
        /\ \A doc \in DOMAIN _autocompletionsOfDocument : ~LRUHas(CacheOf(doc), id)

\* C5: when the TIMEOUT_TIME timer of an Autocompletion fires while its status is
\* 'pending', the status is 'error' after the step.
C5_TimeoutForcesError ==
    [][\A id \in timeoutTimers :
          (id \notin timeoutTimers' /\ autocompletions[id].status = "pending")
              => autocompletions'[id].status = "error"]_vars

\* C6: an Autocompletion whose request the service has reported aborted has
\* status 'error'.
C6_AbortedIsError ==
    \A id \in DOMAIN llmRequests :
        llmRequests[id] = "aborted" => autocompletions[id].status = "error"

\* the call that created Autocompletion calls[c].aid
IsOriginator(c) ==
    calls[c].pc = "await-new" \/ calls[c].path \in {"new-resolved", "new-rejected"}

\* the request of Autocompletion id has ended in a provider error, an abort or
\* the timeout (which reject the llmPromise)
RequestFailed(id) ==
    \/ llmRequests[id] \in {"error", "aborted"}
    \/ autocompletions[id].llmPromise = "rejected"

\* C7: once the request of an Autocompletion has ended in error, timeout or
\* abort, the call that created it has returned [] and the cache of its document
\* does not hold the Autocompletion.
C7_FailedRequestReturnsEmptyAndEvicts ==
    \A c \in 1..Len(calls) :
        (IsOriginator(c) /\ RequestFailed(calls[c].aid))
            => /\ calls[c].pc = "done"
               /\ calls[c].result = <<>>
               /\ ~LRUHas(CacheOf(calls[c].docUriStr), calls[c].aid)

\* an originating call has returned [] after its request was reported aborted
C7_Witness ==
    \E c \in 1..Len(calls) :
        /\ calls[c].path = "new-rejected"
        /\ llmRequests[calls[c].aid] = "aborted"
        /\ calls[c].result = <<>>

\* C8: when the debounce wait of a call ends and a newer call has started during
\* the wait, the call returns [] at once (it goes on neither to the pending-limit
\* step nor to a request).
C8_SupersededCallReturnsNone ==
    [][\A c \in 1..Len(calls) :
          (calls[c].pc = "debounce" /\ calls'[c].pc # "debounce" /\ c < Len(calls))
              => (calls'[c].pc = "done" /\ calls'[c].result = <<>>)]_vars

\* C9: every call of abort on the request of an Autocompletion that is still
\* pending (status 'pending', llmPromise not settled) is made by the pending-limit
\* step.
C9_OnlyPendingLimitAbortsPending ==
    \A i \in 1..Len(abortLog) :
        (abortLog[i].status = "pending" /\ abortLog[i].llmPromise = "pending")
            => abortLog[i].by = "pending-limit"

\* the id of the first Autocompletion with status 'pending' in a cache
OldestPending(cache) == MinOf({id \in LRUKeys(cache) : autocompletions[id].status = "pending"})

StartedCall == Len(calls) + 1

StartsCall == Len(calls') = Len(calls) + 1

\* the step starts a call that finds a cached Autocompletion of the given status
StartsHitOn(status) ==
    /\ StartsCall
    /\ calls'[StartedCall].aid \in DOMAIN autocompletions
    /\ autocompletions[calls'[StartedCall].aid].status \in status

\* what the cached Autocompletion gives for the buffer of the call
InsertionFor(buf, autocompletion) ==
    toInlineCompletions(
        getAutocompletionMatchup(PrefixAndSuffixOf(buf).prefix, autocompletion)[1],
        autocompletion, PrefixAndSuffixOf(buf))

\* C11: a call that finds a cached Autocompletion of status finished or error
\* returns in the step it starts in, sends no request, creates no
\* Autocompletion, and leaves the caches, the id counter, _lastCompletionStart
\* and _lastCompletionAccept as they were; its result is the postprocessed
\* insertion of the cached Autocompletion when finished, and empty when error.
C11_HitOnSettledChangesNothing ==
    [][StartsHitOn({"finished", "error"}) =>
          /\ calls'[StartedCall].pc = "done"
          /\ UNCHANGED <<_autocompletionsOfDocument, _autocompletionId,
                         _lastCompletionStart, _lastCompletionAccept, autocompletions,
                         llmRequests, timeoutTimers, abortLog>>
          /\ calls'[StartedCall].result =
                 IF autocompletions[calls'[StartedCall].aid].status = "finished"
                 THEN InsertionFor(calls'[StartedCall].buf,
                                   autocompletions[calls'[StartedCall].aid])
                 ELSE <<>>
          /\ autocompletions[calls'[StartedCall].aid].status = "finished"
                 => Len(calls'[StartedCall].result) = 1]_vars

\* a call returned the rest of a finished cached Autocompletion after a newer
\* keystroke had started the debounce
C11_Witness ==
    \E c \in 1..Len(calls) :
        /\ calls[c].path = "hit-finished"
        /\ calls[c].result # <<>>
        /\ calls[c].result[1].insertText = <<"b">>
        /\ _lastCompletionStart > autocompletions[calls[c].aid].startTime

\* call c returns in this step from its wait on a cached pending Autocompletion
HitWaiterReturns(c) == calls[c].pc = "await-hit" /\ calls'[c].pc # "await-hit"

\* C12: a call that finds a cached pending Autocompletion waits on that
\* Autocompletion's request and sends none of its own (no Autocompletion, no id,
\* no request, no timer); it waits exactly as long as the promise is unsettled;
\* when the request succeeds it returns the postprocessed insertion, and when
\* the promise is rejected (error, timeout, abort) the Autocompletion is no
\* longer in the cache and the call returns nothing.
C12_HitOnPendingWaits ==
    [][/\ StartsHitOn({"pending"}) =>
              /\ calls'[StartedCall].pc = "await-hit"
              /\ UNCHANGED <<_autocompletionsOfDocument, _autocompletionId,
                             autocompletions, llmRequests, timeoutTimers, abortLog>>
       /\ \A w \in 1..Len(calls') :
              calls'[w].pc = "await-hit" =>
                  autocompletions'[calls'[w].aid].llmPromise = "pending"
       /\ \A c \in 1..Len(calls) :
              HitWaiterReturns(c) =>
                  /\ calls'[c].pc = "done"
                  /\ _autocompletionId' = _autocompletionId
                  /\ DOMAIN autocompletions' = DOMAIN autocompletions
                  /\ DOMAIN llmRequests' = DOMAIN llmRequests
                  /\ IF llmRequests'[calls[c].aid] = "final"
                     THEN /\ autocompletions'[calls[c].aid].llmPromise = "resolved"
                          /\ calls'[c].result =
                                 toInlineCompletions(calls[c].autocompletionMatchup[1],
                                                     autocompletions'[calls[c].aid],
                                                     PrefixAndSuffixOf(calls[c].buf))
                          /\ Len(calls'[c].result) = 1
                     ELSE /\ autocompletions'[calls[c].aid].llmPromise = "rejected"
                          /\ calls'[c].result = <<>>
                          /\ ~LRUHas(_autocompletionsOfDocument'[calls[c].docUriStr],
                                     calls[c].aid)]_vars

\* a call that waited on another call's request returned that request's text
C12_Witness ==
    \E c \in 1..Len(calls) :
        /\ calls[c].path = "hit-resolved"
        /\ calls[c].result # <<>>
        /\ calls[c].result[1].insertText = <<"b">>
        /\ \E o \in 1..Len(calls) : calls[o].path = "new-resolved" /\ calls[o].aid = calls[c].aid

\* a call waiting on the promise of an Autocompletion whose timer has fired
AwaitsAfterTimeout(c) ==
    /\ calls[c].pc \in {"await-new", "await-hit"}
    /\ calls[c].aid \notin timeoutTimers

C14_DisabledChangesNothing ==
    [][(StartsCall /\ calls'[StartedCall].path = "disabled") =>
          /\ calls'[StartedCall].pc = "done"
          /\ calls'[StartedCall].result = <<>>
          /\ calls'[StartedCall].aid = -1
          /\ \A c \in 1..Len(calls) : calls'[c] = calls[c]
          /\ UNCHANGED <<_autocompletionsOfDocument, _autocompletionId,
                         _lastCompletionStart, _lastCompletionAccept, autocompletions,
                         llmRequests, timeoutTimers, abortLog>>]_vars

\* a disabled call on a document that has no cache yet, and none afterwards
C14_Witness ==
    /\ \E c \in 1..Len(calls) : calls[c].path = "disabled"
    /\ _autocompletionsOfDocument = <<>>

\* call c leaves gatherLSPContext in this step with a classifier result of
\* shouldGenerate = false
DeclinesToGenerate(c) ==
    /\ calls[c].pc = "lsp"
    /\ calls'[c].pc # "lsp"
    /\ \A lspContext \in LspContexts :
           ~getCompletionOptions(PrefixAndSuffixOf(calls[c].buf), lspContext,
                                 calls[c].justAcceptedAutocompletion).shouldGenerate

\* C15: when getCompletionOptions returns shouldGenerate = false the call
\* returns an empty result, no Autocompletion is created or cached, the id
\* counter keeps its value and no request is sent (and no timer set).
C15_NoGenerationLeavesNoTrace ==
    [][\A c \in 1..Len(calls) :
          DeclinesToGenerate(c) =>
              /\ calls'[c].pc = "done"
              /\ calls'[c].result = <<>>
              /\ UNCHANGED <<_autocompletionsOfDocument, _autocompletionId,
                             autocompletions, llmRequests, timeoutTimers, abortLog>>]_vars

\* a call declined by the classifier returned, with the counter where the single
\* dispatched call left it
C15_Witness ==
    \E c \in 1..Len(calls) :
        /\ calls[c].path = "do-not-predict"
        /\ calls[c].result = <<>>
        /\ _autocompletionId = 1
        /\ DOMAIN autocompletions = {0}
        /\ \E o \in 1..Len(calls) : o < c /\ calls[o].aid = 0

\* the step is a run of freeInlineCompletions that removed something
FreeRemoves ==
    /\ Len(abortLog') > Len(abortLog)
    /\ abortLog'[Len(abortLog')].by = "free"

\* the cached Autocompletions of a document that the prefix accepts: prefix +
\* insertText equals it, whitespace aside
AcceptedBy(docUriStr, prefix) ==
    {id \in LRUKeys(CacheOf(docUriStr)) :
        removeAllWhitespace(prefix)
            = removeAllWhitespace(autocompletions[id].prefix \o autocompletions[id].insertText)}

\* what a run of freeInlineCompletions on docUriStr with the given prefix leaves
FreedExactly(docUriStr, accepted) ==
    /\ accepted # {}
    /\ _autocompletionsOfDocument' =
           [_autocompletionsOfDocument EXCEPT
               ![docUriStr].items =
                   SelectSeq(@, LAMBDA item : item.key \notin accepted),
               ![docUriStr].keyOrder =
                   SelectSeq(@, LAMBDA key : key \notin accepted)]
    /\ _lastCompletionAccept' = now
    /\ Len(abortLog') = Len(abortLog) + Cardinality(accepted)
    /\ {abortLog'[i].requestId : i \in (Len(abortLog) + 1)..Len(abortLog')} = accepted
    /\ UNCHANGED <<autocompletions, _autocompletionId, _lastCompletionStart, calls>>

\* C16: a run of freeInlineCompletions removes from the document's cache every
\* Autocompletion whose prefix + insertText equals the current prefix once all
\* whitespace is removed, calling the disposal callback once on each, and sets
\* _lastCompletionAccept to the current time; the other entries stay where they
\* are, unchanged.
C16_FreeRemovesAccepted ==
    [][FreeRemoves =>
          \E docUriStr \in DOMAIN _autocompletionsOfDocument, buf \in limits.buffers :
              FreedExactly(docUriStr, AcceptedBy(docUriStr, PrefixAndSuffixOf(buf).prefix))]_vars

\* an acceptance removed a finished Autocompletion and left another entry cached
C16_Witness ==
    /\ \E i \in 1..Len(abortLog) : abortLog[i].by = "free" /\ abortLog[i].status = "finished"
    /\ _lastCompletionAccept = now
    /\ \E d \in DOMAIN _autocompletionsOfDocument : LRUSize(CacheOf(d)) = 1

\* the ids of a cache in the Map's iteration order
IdsInOrder(cache) == [i \in 1..Len(cache.items) |-> cache.items[i].key]

Ascending(ids) == \A i \in 1..Len(ids), j \in 1..Len(ids) : i < j => ids[i] < ids[j]

\* the ids that enter some cache in this step
EnteringIds ==
    UNION { LRUKeys(_autocompletionsOfDocument'[d]) \
              (IF d \in DOMAIN _autocompletionsOfDocument
               THEN LRUKeys(CacheOf(d)) ELSE {}) : d \in DOMAIN _autocompletionsOfDocument' }

\* C17: ids come from a counter that only grows: an Autocompletion is created
\* with the counter's value, which no Autocompletion created before has (also
\* not one evicted since), and the counter then moves on by one; every entry is
\* cached under the id it carries; and every document cache iterates in
\* ascending id order.
C17_IdsStrictlyIncrease ==
    [][/\ _autocompletionId' >= _autocompletionId
       /\ \A id \in DOMAIN autocompletions' \ DOMAIN autocompletions :
              /\ id = _autocompletionId
              /\ _autocompletionId' = _autocompletionId + 1
       /\ \A id \in EnteringIds :
              /\ id = _autocompletionId
              /\ id \notin DOMAIN autocompletions
       /\ \A id \in DOMAIN autocompletions' :
              /\ autocompletions'[id].id = id
              /\ id < _autocompletionId'
       /\ \A d \in DOMAIN _autocompletionsOfDocument' :
              /\ Ascending(IdsInOrder(_autocompletionsOfDocument'[d]))
              /\ \A i \in 1..Len(_autocompletionsOfDocument'[d].items) :
                     _autocompletionsOfDocument'[d].items[i].value
                         = _autocompletionsOfDocument'[d].items[i].key]_vars

\* three Autocompletions were created, the first has left the cache and the
\* other two are cached in the order of their ids
C17_Witness ==
    /\ _autocompletionId = 3
    /\ \E d \in DOMAIN _autocompletionsOfDocument : IdsInOrder(CacheOf(d)) = <<1, 2>>

\* C18: an Autocompletion holds a request handle (requestId) only while its
\* status is pending: one that is finished or error holds none.
C18_HandleOnlyWhilePending ==
    \A id \in DOMAIN autocompletions :
        autocompletions[id].status \in {"finished", "error"} =>
            autocompletions[id].requestId = None

\* the document of the request behind an entry of abortLog
DocOfRequest(requestId) ==
    calls[CHOOSE c \in 1..Len(calls) : IsOriginator(c) /\ calls[c].aid = requestId].docUriStr

\* the documents on which freeInlineCompletions has accepted something
AcceptedDocs ==
    {DocOfRequest(abortLog[i].requestId) :
        i \in {j \in 1..Len(abortLog) : abortLog[j].by = "free"}}

\* a debounce wait that ends with no newer call on the call's own document lets
\* the call go on
OtherDocKeystrokeKeepsCall ==
    \A c \in 1..Len(calls) :
        (/\ calls[c].pc = "debounce"
         /\ calls'[c].pc # "debounce"
         /\ \A c2 \in 1..Len(calls) :
                c2 > c => calls[c2].docUriStr # calls[c].docUriStr)
            => calls'[c].pc = "lsp"

\* an Autocompletion created for a document on which nothing was accepted has
\* the prediction type of a call that did not just accept
OtherDocAcceptKeepsKind ==
    \A c \in 1..Len(calls) :
        (/\ calls[c].pc = "lsp"
         /\ calls'[c].pc = "await-new"
         /\ calls[c].docUriStr \notin AcceptedDocs)
            => \E lspContext \in LspContexts :
                   autocompletions'[calls'[c].aid].type =
                       getCompletionOptions(PrefixAndSuffixOf(calls[c].buf), lspContext,
                                            FALSE).predictionType

\* C19: what happens on one document does not change what a call on another
\* document does: a call started on document B during the debounce wait of a
\* call on document A does not make A's call return without a request, and an
\* acceptance on B does not change the prediction type chosen for A.
C19_DocumentsDoNotInterfere ==
    [][OtherDocKeystrokeKeepsCall /\ OtherDocAcceptKeepsKind]_vars

\* sanity: an entry that is cached and pending has an unsettled promise
CachedPendingUnsettled ==
    \A doc \in DOMAIN _autocompletionsOfDocument :
        \A id \in LRUKeys(_autocompletionsOfDocument[doc]) :
            autocompletions[id].status = "pending" => autocompletions[id].llmPromise = "pending"

\* ------------------------------------- SpecFn: the functions by themselves

\* SpecFn: the longest text drawn for each argument
MaxRawLen == 4
WindowLines == 26
MaxPrefixLen == 2
MaxInsertLen == 3
MaxTextLen == 3
MaxBracketLen == 3

\* the texts over an alphabet, up to a length
Strings(alphabet, n) == UNION {[1..k -> alphabet] : k \in 0..n}

\* the texts with an index into them, from 0 to their length: <<text, index>>
TextsWithIndex(texts, n) == {at \in texts \X (0..n) : at[2] <= Len(at[1])}

\* the model's answers processStartAndEndSpaces is called with
RawTexts == Strings({" ", "\n", "a"}, MaxRawLen)

ProcessStartAndEndSpacesInputs(fn) ==
    {[fn |-> fn, raw |-> raw] : raw \in RawTexts}

\* the spec's example of the bracket scan
BracketExample ==
    [fn |-> "getStringUpToUnbalancedClosingParenthesis",
     s |-> <<"r", "e", "t", "u", "r", "n", " ", "1", ";", " ", "}", " ", "}", " ", "e", "l", "s", "e", " ", "{">>,
     prefix |-> <<"i", "f", " ", "(", "x", ")", " ", "{">>]

UnbalancedInputs(fn) ==
    {[fn |-> fn, s |-> s, prefix |-> prefix] :
        s \in Strings({"(", ")", "}", "a"}, MaxBracketLen),
        prefix \in Strings({"(", "{", ")", "}"}, MaxBracketLen - 1)}
    \cup {BracketExample}

\* the buffers the classifier is called on: model.getValue(EndOfLinePreference.LF)
\* holds line feeds only, whatever the platform
BufferTexts == Strings({"a", " ", "\n"}, MaxTextLen) \cup Strings({"a"}, MaxTextLen + 2)

CompletionOptionsInputs(fn) ==
    {[fn |-> fn, fullText |-> at[1], cursorOffset |-> at[2],
      justAcceptedAutocompletion |-> justAcceptedAutocompletion] :
        at \in TextsWithIndex(BufferTexts, MaxTextLen + 2),
        justAcceptedAutocompletion \in BOOLEAN}

\* stored predictions, as far as getAutocompletionMatchup reads them
StoredPredictions ==
    {[prefix |-> prefix, insertText |-> insertText] :
        prefix \in Strings({"a", " ", "\n"}, MaxPrefixLen),
        insertText \in Strings({"a", " ", "\n"}, MaxInsertLen)}

\* the matchup of a stored prediction with its prefix followed by the first
\* typed characters of its insertion
MatchupInputs(fn) ==
    {[fn |-> fn, autocompletion |-> typed[1],
      prefix |-> typed[1].prefix \o SubSeq(typed[1].insertText, 1, typed[2])] :
        typed \in {at \in StoredPredictions \X (0..MaxInsertLen) :
                      at[2] <= Len(at[1].insertText)}}

\* the matchup of a stored prediction with two current prefixes, one after the
\* other: a prefix that holds spaces, and the same prefix without them
MatchupTwiceInputs(fn) ==
    {[fn |-> fn, autocompletion |-> autocompletion,
      prefix |-> prefix, otherPrefix |-> SelectSeq(prefix, LAMBDA c : c # " ")] :
        autocompletion \in {stored \in StoredPredictions :
                               Len(stored.insertText) < MaxInsertLen},
        prefix \in {text \in Strings({"a", " ", "\n"}, MaxInsertLen) :
                       \E i \in 1..Len(text) : text[i] = " "}}

PredictionTypes ==
    {"multi-line-start-on-next-line", "single-line-fill-middle",
     "single-line-redo-suffix", "do-not-predict"}

\* the text of the cursor's line left of the cursor, and right of it
LinesLeftOfCursor == {<<>>, <<"a">>, <<"a", " ">>, <<" ">>}
LinesRightOfCursor == {<<>>, <<" ">>, <<"a">>, <<"a", "b">>, <<")">>}

\* a prediction matched from startIdx on, at a cursor inside a one-line buffer
ShownPredictions(fn) ==
    {[fn |-> fn,
      autocompletionMatchup |-> [startIdx |-> at[2]],
      autocompletion |-> [insertText |-> at[1], type |-> type],
      fullText |-> left \o right, cursorOffset |-> Len(left)] :
        at \in TextsWithIndex(Strings({"a", " ", "\n"}, MaxInsertLen), MaxInsertLen),
        type \in PredictionTypes,
        left \in LinesLeftOfCursor, right \in LinesRightOfCursor}

\* 'const x = ' left of the cursor and a prediction of three lines
SingleLineExample ==
    [fn |-> "postprocessAutocompletion",
     autocompletionMatchup |-> [startIdx |-> 0],
     autocompletion |->
         [insertText |->
              <<"5", ";", "\n", "\n", "c", "o", "n", "s", "o", "l", "e", ".",
              "l", "o", "g", "(", "x", ")", ";">>,
          type |-> "single-line-redo-suffix"],
     fullText |-> <<"c", "o", "n", "s", "t", " ", "x", " ", "=", " ">>,
     cursorOffset |-> 10]

\* predictions that hold '>' shown before a line suffix that begins with '>' or
\* with 'a'
SuffixMatchInputs(fn) ==
    {[fn |-> fn,
      autocompletionMatchup |-> [startIdx |-> at[2]],
      autocompletion |-> [insertText |-> at[1], type |-> type],
      fullText |-> left \o right, cursorOffset |-> Len(left)] :
        at \in TextsWithIndex(Strings({"a", ">"}, MaxInsertLen), MaxInsertLen),
        type \in PredictionTypes,
        left \in {<<>>, <<"a">>}, right \in {<<">">>, <<" ", ">">>, <<"a">>}}

PostprocessInputs(fn) ==
    ShownPredictions(fn) \cup {SingleLineExample} \cup SuffixMatchInputs(fn)

ToInlineCompletionsInputs(fn) == ShownPredictions(fn)

\* a cursor after 'a' with more than 25 lines above it and below it
WindowText == [i \in 1..(2 * WindowLines + 1) |-> IF i = WindowLines + 1 THEN "a" ELSE "\n"]
WindowInputs(fn) ==
    {[fn |-> fn, fullText |-> WindowText,
      cursorOffset |-> WindowLines + 1,
      justAcceptedAutocompletion |-> justAcceptedAutocompletion] :
        justAcceptedAutocompletion \in BOOLEAN}

PrefixAndSuffixInputs(fn) ==
    {[fn |-> fn, fullText |-> at[1], cursorOffset |-> at[2]] :
        at \in TextsWithIndex(BufferTexts, MaxTextLen + 2)}

\* the functions called on their own
FnNames ==
    {"processStartAndEndSpaces", "getPrefixAndSuffixInfo", "toInlineCompletions",
     "postprocessAutocompletion", "getAutocompletionMatchup twice",
     "getAutocompletionMatchup", "getCompletionOptions",
     "getStringUpToUnbalancedClosingParenthesis"}

\* the arguments drawn for a function
FnInputs(fn) ==
    CASE fn = "processStartAndEndSpaces" -> ProcessStartAndEndSpacesInputs(fn)
      [] fn = "getPrefixAndSuffixInfo" -> PrefixAndSuffixInputs(fn)
      [] fn = "toInlineCompletions" -> ToInlineCompletionsInputs(fn)
      [] fn = "postprocessAutocompletion" -> PostprocessInputs(fn)
      [] fn = "getAutocompletionMatchup twice" -> MatchupTwiceInputs(fn)
      [] fn = "getAutocompletionMatchup" -> MatchupInputs(fn)
      [] fn = "getCompletionOptions" -> CompletionOptionsInputs(fn) \cup WindowInputs(fn)
      [] fn = "getStringUpToUnbalancedClosingParenthesis" -> UnbalancedInputs(fn)

InitFn ==
    /\ isWindows \in BOOLEAN
    /\ \E fn \in FnNames : fnInput \in FnInputs(fn)
    /\ fnOutput = NoFn
    /\ SvcIdle
    /\ lru = LRUCache(1)
    /\ lruLast = NoOp
    /\ lruRecency = <<>>

\* the function named by fnInput is about to be called
Calling(fn) == fnInput.fn = fn /\ fnOutput = NoFn

\* the call has returned result
Returns(result) ==
    /\ fnOutput' = [fn |-> fnInput.fn, result |-> result]
    /\ UNCHANGED <<isWindows, fnInput, lruVars, svcVars>>

ProcessStartAndEndSpacesCall ==
    /\ Calling("processStartAndEndSpaces")
    /\ Returns(processStartAndEndSpaces(fnInput.raw))

UnbalancedCall ==
    /\ Calling("getStringUpToUnbalancedClosingParenthesis")
    /\ Returns(getStringUpToUnbalancedClosingParenthesis(fnInput.s, fnInput.prefix))

CompletionOptionsCall ==
    /\ Calling("getCompletionOptions")
    /\ Returns(getCompletionOptions(
                   getPrefixAndSuffixInfo(fnInput.fullText, fnInput.cursorOffset),
                   <<>>, fnInput.justAcceptedAutocompletion))

MatchupCall ==
    /\ Calling("getAutocompletionMatchup")
    /\ Returns(getAutocompletionMatchup(fnInput.prefix, fnInput.autocompletion))

MatchupTwiceCall ==
    /\ Calling("getAutocompletionMatchup twice")
    /\ Returns(<<getAutocompletionMatchup(fnInput.prefix, fnInput.autocompletion),
                 getAutocompletionMatchup(fnInput.otherPrefix, fnInput.autocompletion)>>)

PostprocessCall ==
    /\ Calling("postprocessAutocompletion")
    /\ Returns(postprocessAutocompletion(fnInput.autocompletionMatchup,
                   fnInput.autocompletion,
                   getPrefixAndSuffixInfo(fnInput.fullText, fnInput.cursorOffset)))

ToInlineCompletionsCall ==
    /\ Calling("toInlineCompletions")
    /\ Returns(toInlineCompletions(fnInput.autocompletionMatchup, fnInput.autocompletion,
                   getPrefixAndSuffixInfo(fnInput.fullText, fnInput.cursorOffset)))

PrefixAndSuffixCall ==
    /\ Calling("getPrefixAndSuffixInfo")
    /\ Returns(getPrefixAndSuffixInfo(fnInput.fullText, fnInput.cursorOffset))

NextFn ==
    \/ ProcessStartAndEndSpacesCall
    \/ PrefixAndSuffixCall
    \/ ToInlineCompletionsCall
    \/ PostprocessCall
    \/ MatchupTwiceCall
    \/ MatchupCall
    \/ CompletionOptionsCall
    \/ UnbalancedCall

SpecFn == InitFn /\ [][NextFn]_vars

\* the function has been called and has returned
Called(fn) == fnOutput.fn = fn

\* C30: processStartAndEndSpaces(raw) is raw without its leading and trailing
\* whitespace, with one space put back in front if raw began with a space and
\* one at the end if raw ended with a space, and the result never starts or ends
\* with more than one whitespace character.
C30_KeepsOneSpaceAtEachEnd ==
    Called("processStartAndEndSpaces") =>
        LET raw == fnInput.raw
            result == fnOutput.result
        IN  /\ result = (IF startsWith(raw, <<" ">>) THEN <<" ">> ELSE <<>>)
                            \o trim(raw)
                            \o (IF Len(raw) > 0 /\ raw[Len(raw)] = " " THEN <<" ">> ELSE <<>>)
            /\ Len(result) >= 2 =>
                   /\ ~(IsWhitespace(result[1]) /\ IsWhitespace(result[2]))
                   /\ ~(IsWhitespace(result[Len(result)])
                          /\ IsWhitespace(result[Len(result) - 1]))

\* the openers a text leaves open on top of those open before it: a closer
\* closes the innermost open opener when it is of its kind
RECURSIVE OpenersAfter(_, _)
OpenersAfter(text, open) ==
    IF text = <<>> THEN open
    ELSE IF IsOpener(Head(text)) THEN OpenersAfter(Tail(text), Append(open, Head(text)))
    ELSE IF IsCloser(Head(text)) /\ open # <<>> /\ open[Len(open)] = pairs(Head(text))
    THEN OpenersAfter(Tail(text), SubSeq(open, 1, Len(open) - 1))
    ELSE OpenersAfter(Tail(text), open)

\* the text holds a closer that closes nothing open when it is reached
RECURSIVE HasUnmatchedCloser(_, _)
HasUnmatchedCloser(text, open) ==
    IF text = <<>> THEN FALSE
    ELSE IF IsCloser(Head(text))
    THEN IF open # <<>> /\ open[Len(open)] = pairs(Head(text))
         THEN HasUnmatchedCloser(Tail(text), SubSeq(open, 1, Len(open) - 1))
         ELSE TRUE
    ELSE HasUnmatchedCloser(Tail(text),
                            IF IsOpener(Head(text)) THEN Append(open, Head(text)) ELSE open)

\* result is the longest prefix of s without a closer that closes nothing
LongestBalancedPrefix(result, s, open) ==
    \E n \in 0..Len(s) :
        /\ result = SubSeq(s, 1, n)
        /\ ~HasUnmatchedCloser(result, open)
        /\ n < Len(s) => HasUnmatchedCloser(SubSeq(s, 1, n + 1), open)

\* C26: getStringUpToUnbalancedClosingParenthesis(s, prefix) is the longest
\* prefix of s in which every closing ), } or ] closes an opener, the openers
\* that prefix leaves unclosed counting as open: s is cut just before the first
\* closer that closes nothing (prefix 'if (x) {' and s 'return 1; } } else {'
\* give 'return 1; } ').
C26_CutsAtFirstUnbalancedCloser ==
    Called("getStringUpToUnbalancedClosingParenthesis") =>
        /\ LongestBalancedPrefix(fnOutput.result, fnInput.s,
                                 OpenersAfter(fnInput.prefix, <<>>))
        /\ fnInput = BracketExample => fnOutput.result = <<"r", "e", "t", "u", "r", "n", " ", "1", ";", " ", "}", " ">>

\* C21: for every buffer, cursor and acceptance flag getCompletionOptions
\* returns one of the four prediction types, and shouldGenerate is false
\* exactly when the type is do-not-predict.
C21_OneKindAndGenerateUnlessDoNotPredict ==
    Called("getCompletionOptions") =>
        /\ fnOutput.result.predictionType \in PredictionTypes
        /\ fnOutput.result.shouldGenerate \in BOOLEAN
        /\ ~fnOutput.result.shouldGenerate
               <=> fnOutput.result.predictionType = "do-not-predict"

\* the classifier declined: the cursor stands before more than three characters
\* with nothing left of it
C21_Witness ==
    /\ Called("getCompletionOptions")
    /\ fnOutput.result.predictionType = "do-not-predict"
    /\ ~fnOutput.result.shouldGenerate
    /\ fnInput.cursorOffset = 0

\* the text of the cursor's line left of the cursor, and right of it
LineLeftOfCursor(fullText, cursorOffset) ==
    LET lines == split(substring0(fullText, cursorOffset), <<"\n">>)
    IN  lines[Len(lines)]
LineRightOfCursor(fullText, cursorOffset) ==
    split(sliceFrom(fullText, cursorOffset), <<"\n">>)[1]

\* C22: with no acceptance just made, a cursor with non-blank text left of it
\* on its line and nothing right of it on that line gets
\* single-line-fill-middle with the line-break stop tokens.
C22_EndOfLineIsFillMiddle ==
    (/\ Called("getCompletionOptions")
     /\ ~fnInput.justAcceptedAutocompletion
     /\ trim(LineLeftOfCursor(fnInput.fullText, fnInput.cursorOffset)) # <<>>
     /\ LineRightOfCursor(fnInput.fullText, fnInput.cursorOffset) = <<>>)
        => /\ fnOutput.result.predictionType = "single-line-fill-middle"
           /\ fnOutput.result.stopTokens = allLinebreakSymbols

\* how many characters of the insertion the current prefix has beyond the stored
\* prefix
Typed == Len(fnInput.prefix) - Len(fnInput.autocompletion.prefix)

\* C23: the matchup of a stored prediction (prefix P, insertion S) with the
\* current prefix P, nothing typed since, succeeds with startIdx = 0.
C23_UntypedPrefixMatchesAtZero ==
    (Called("getAutocompletionMatchup") /\ Typed = 0) =>
        /\ fnOutput.result # None
        /\ fnOutput.result[1].startIdx = 0

\* the matchup of a two-line prefix with itself
C23_Witness ==
    /\ Called("getAutocompletionMatchup")
    /\ Typed = 0
    /\ fnInput.prefix = <<"a", "\n">>
    /\ fnInput.autocompletion.insertText = <<" ", "a", "\n">>
    /\ fnOutput.result = Some([startLine |-> 0, startCharacter |-> 0, startIdx |-> 0])

\* C24: the matchup of a stored prediction (prefix P, insertion S) with the
\* current prefix P followed by the first k characters of S, 0 <= k <= |S|,
\* succeeds with startIdx = k.
C24_TypedPrefixMatchesAtK ==
    Called("getAutocompletionMatchup") =>
        /\ fnOutput.result # None
        /\ fnOutput.result[1].startIdx = Typed

\* text without the spaces and tabs that begin it
RECURSIVE DropLeadingBlanks(_)
DropLeadingBlanks(text) ==
    IF text # <<>> /\ Head(text) \in {" ", "\t"} THEN DropLeadingBlanks(Tail(text))
    ELSE text

\* text without the spaces and tabs that end it
RECURSIVE DropTrailingBlanks(_)
DropTrailingBlanks(text) ==
    IF text # <<>> /\ text[Len(text)] \in {" ", "\t"}
    THEN DropTrailingBlanks(SubSeq(text, 1, Len(text) - 1))
    ELSE text

\* text without the indentation of its lines and without its trailing spaces
WithoutIndentation(text) ==
    LET lines == split(text, <<"\n">>)
    IN  DropTrailingBlanks(join([i \in 1..Len(lines) |-> DropLeadingBlanks(lines[i])],
                                <<"\n">>))

\* the two prefixes differ only in leading whitespace of lines or trailing spaces
DifferOnlyInIndentation ==
    WithoutIndentation(fnInput.prefix) = WithoutIndentation(fnInput.otherPrefix)

\* C25: for any stored prediction and any two current prefixes that differ only
\* in the leading whitespace of their lines or in trailing spaces and tabs, the
\* matchup succeeds for both prefixes or for neither.
C25_IndentationDoesNotDecideMatch ==
    (Called("getAutocompletionMatchup twice") /\ DifferOnlyInIndentation) =>
        (fnOutput.result[1] = None <=> fnOutput.result[2] = None)

\* the insertion from the matched index on, and its first line
RemainingInsertion ==
    sliceFrom(fnInput.autocompletion.insertText, fnInput.autocompletionMatchup.startIdx)
FirstRemainingLine == split(RemainingInsertion, <<"\n">>)[1]

\* non-blank text left of the cursor, only whitespace right of it, and a
\* non-blank first line still to insert
SingleLineCase ==
    /\ trim(LineLeftOfCursor(fnInput.fullText, fnInput.cursorOffset)) # <<>>
    /\ trim(LineRightOfCursor(fnInput.fullText, fnInput.cursorOffset)) = <<>>
    /\ trim(FirstRemainingLine) # <<>>

\* C27: when the cursor's line has non-blank text left of the cursor and only
\* whitespace right of it, and the first line of the remaining insertion is
\* non-blank, the text postprocessAutocompletion returns holds no line break.
C27_SingleLineCaseHasNoLineBreak ==
    (Called("postprocessAutocompletion") /\ SingleLineCase) =>
        \A i \in 1..Len(fnOutput.result) : fnOutput.result[i] # "\n"

\* the calls that created a multi-line-start-on-next-line prediction and
\* returned its insertion when the request succeeded
NextLineOriginators ==
    {c \in 1..Len(calls) :
        /\ calls[c].path = "new-resolved"
        /\ autocompletions[calls[c].aid].type = "multi-line-start-on-next-line"}

\* C28: when the request of a multi-line-start-on-next-line prediction
\* succeeds, the stored insertText begins with a line break, and the insertion
\* returned to the call that created the prediction begins with it too.
C28_NextLineInsertionKeepsLineBreak ==
    \A c \in NextLineOriginators :
        /\ startsWith(autocompletions[calls[c].aid].insertText, _ln)
        /\ Len(calls[c].result) = 1
        /\ startsWith(calls[c].result[1].insertText, _ln)

\* text without its whitespace
Stripped(text) == SelectSeq(text, LAMBDA c : c \notin {" ", "\t", "\n", "\r"})

\* sub is a subsequence of text: its characters occur in text in their order
IsSubsequenceOf(sub, text) ==
    \E at \in [1..Len(sub) -> 1..Len(text)] :
        /\ \A i, j \in 1..Len(sub) : i < j => at[i] < at[j]
        /\ \A i \in 1..Len(sub) : text[at[i]] = sub[i]

\* how many characters of sub, from its first on, text holds in their order
CommonLength(sub, text) ==
    MaxOf({k \in 0..Len(sub) : IsSubsequenceOf(SubSeq(sub, 1, k), text)})

\* the range ends just after a character of the old suffix that is the last
\* one the old suffix and the insertion have in common
EndsAfterLastCommon(numCharsToReplace, oldSuffix, insertText) ==
    LET common == CommonLength(Stripped(oldSuffix), Stripped(insertText))
    IN  /\ common > 0
        /\ numCharsToReplace \in 1..Len(oldSuffix)
        /\ oldSuffix[numCharsToReplace] = Stripped(oldSuffix)[common]

\* C29: toInlineCompletions returns a zero-width range for every type but
\* single-line-redo-suffix; for single-line-redo-suffix the range goes to the end
\* of the line exactly when the old line suffix without whitespace is a
\* subsequence of the insertion without whitespace, and otherwise it ends just
\* after the last common matching character within the old suffix.
C29_RangeOfInlineCompletion ==
    Called("toInlineCompletions") =>
        LET item == fnOutput.result[1]
            oldSuffix == LineRightOfCursor(fnInput.fullText, fnInput.cursorOffset)
            insertText == fnInput.autocompletion.insertText
        IN  IF fnInput.autocompletion.type # "single-line-redo-suffix"
            THEN ~item.toEndOfLine /\ item.numCharsToReplace = 0
            ELSE /\ item.toEndOfLine <=>
                        IsSubsequenceOf(Stripped(oldSuffix), Stripped(insertText))
                 /\ ~item.toEndOfLine =>
                        EndsAfterLastCommon(item.numCharsToReplace, oldSuffix, insertText)

\* what getCompletionOptions is given: the context of the drawn buffer and cursor
GivenContext == getPrefixAndSuffixInfo(fnInput.fullText, fnInput.cursorOffset)

\* how many non-whitespace characters a text holds
NonWhitespace(text) == Len(SelectSeq(text, LAMBDA c : c \notin {" ", "\t", "\n", "\r"}))

\* the type the first rule that holds gives, for the line prefix and the line
\* suffix and the acceptance flag
FirstRule(linePrefix, lineSuffix, justAccepted) ==
    CASE justAccepted /\ NonWhitespace(lineSuffix) = 0 -> "multi-line-start-on-next-line"
      [] OTHER ->
    CASE NonWhitespace(linePrefix) = 0 /\ NonWhitespace(lineSuffix) = 0 -> "single-line-fill-middle"
      [] OTHER ->
    CASE NonWhitespace(lineSuffix) <= 3 -> "single-line-redo-suffix"
      [] OTHER ->
    CASE NonWhitespace(linePrefix) > 0 -> "single-line-fill-middle"
      [] OTHER -> "do-not-predict"

FirstLinesOf(text, n) ==
    LET lines == split(text, _ln)
    IN  join(SubSeq(lines, 1, IF n < Len(lines) THEN n ELSE Len(lines)), _ln)
LastLinesOf(text, n) ==
    LET lines == split(text, _ln)
    IN  join(SubSeq(lines, IF n < Len(lines) THEN Len(lines) - n + 1 ELSE 1, Len(lines)),
             _ln)

\* a text from its first line break on; nothing when it is one line
FromFirstLineBreak(text) ==
    IF indexOf(text, _ln) < 0 THEN <<>> ELSE sliceFrom(text, indexOf(text, _ln))

BothChecksPass(prefix, autocompletion) ==
    /\ Len(removeLeftTabsAndTrimEnds(prefix))
           >= Len(removeLeftTabsAndTrimEnds(autocompletion.prefix))
    /\ startsWith(removeLeftTabsAndTrimEnds(autocompletion.prefix)
                      \o removeLeftTabsAndTrimEnds(autocompletion.insertText),
                  removeLeftTabsAndTrimEnds(prefix))

\* C33: whenever the length check and the starts-with check of
\* getAutocompletionMatchup both pass, a match is returned: the branches
\* 'No line found' and 'negative index' are not reached.
C33_ChecksPassedGiveMatch ==
    (Called("getAutocompletionMatchup") /\ BothChecksPass(fnInput.prefix, fnInput.autocompletion))
        => fnOutput.result # None

\* the returned text is the remaining insertion cut at or before the last
\* occurrence of the first character of the trimmed line suffix, when that
\* character is a bracket or a quote and occurs
CutAtSuffixCharacter ==
    LET trimmedSuffix == trim(LineRightOfCursor(fnInput.fullText, fnInput.cursorOffset))
        occurrences == {i \in 1..Len(RemainingInsertion) :
                           RemainingInsertion[i] = trimmedSuffix[1]}
    IN  (/\ trimmedSuffix[1] \in {"{", "}", "(", ")", "[", "]", "<", ">", "`", "'", "\""}
         /\ occurrences # {}) =>
            /\ Len(fnOutput.result) < MaxOf(occurrences)
            /\ fnOutput.result = SubSeq(RemainingInsertion, 1, Len(fnOutput.result))

\* a prediction of the given type is shown before a non-blank line suffix, and
\* no blank is skipped at its start
ShownBeforeSuffix(type) ==
    /\ Called("postprocessAutocompletion")
    /\ fnInput.autocompletion.type = type
    /\ trim(LineRightOfCursor(fnInput.fullText, fnInput.cursorOffset)) # <<>>
    /\ \A i \in 1..Len(RemainingInsertion) : i = 1 => RemainingInsertion[i] \notin {" ", "\t"}

\* C34, as the program has it: the suffix-deduplication step is applied to
\* single-line-fill-middle predictions whenever the current line has a
\* non-blank suffix.
C34_FillMiddleIsCutAtSuffix ==
    ShownBeforeSuffix("single-line-fill-middle") => CutAtSuffixCharacter

\* the insertion 'a>' shown before the line suffix '>' comes back as 'a'
C34_Witness ==
    /\ ShownBeforeSuffix("single-line-fill-middle")
    /\ fnInput.autocompletion.insertText = <<"a", ">">>
    /\ fnInput.autocompletionMatchup.startIdx = 0
    /\ fnInput.fullText = <<"a", ">">>
    /\ fnOutput.result = <<"a">>

\* C34: the suffix-deduplication step (cut the insertion at the occurrence,
\* found searching backward, of the first character of the trimmed line suffix
\* when that character is a bracket or a quote) is applied to
\* single-line-redo-suffix predictions whenever the current line has a
\* non-blank suffix.
C34_RedoSuffixIsCutAtSuffix ==
    ShownBeforeSuffix("single-line-redo-suffix") => CutAtSuffixCharacter

\* C35: getPrefixAndSuffixInfo returns a prefix and a suffix that make up the
\* LF-normalized buffer text, and on every platform prefixToTheLeftOfCursor and
\* suffixToTheRightOfCursor hold no line feed.
C35_CursorLineHoldsNoLineFeed ==
    Called("getPrefixAndSuffixInfo") =>
        /\ fnOutput.result.prefix \o fnOutput.result.suffix = fnInput.fullText
        /\ \A i \in 1..Len(fnOutput.result.prefixToTheLeftOfCursor) :
               fnOutput.result.prefixToTheLeftOfCursor[i] # "\n"
        /\ \A j \in 1..Len(fnOutput.result.suffixToTheRightOfCursor) :
               fnOutput.result.suffixToTheRightOfCursor[j] # "\n"

\* C36: for every prediction the disposal callback calls abort with its
\* requestId at most once over its lifetime, whatever the interleaving of
\* evictions, deletes by failed awaiting calls and acceptances.
C36_AbortedAtMostOnce ==
    \A i, j \in 1..Len(abortLog) :
        abortLog[i].requestId = abortLog[j].requestId => i = j

\* an acceptance aborted a pending prediction, and the call that waited for it
\* ran its catch block, whose delete found the entry gone
C36_Witness ==
    \E c \in 1..Len(calls) :
        /\ calls[c].path = "new-rejected"
        /\ Cardinality({i \in 1..Len(abortLog) : abortLog[i].requestId = calls[c].aid}) = 1
        /\ \A i \in 1..Len(abortLog) :
               abortLog[i].requestId = calls[c].aid => abortLog[i].by = "free"

\* call c returns in this step
ReturnsNow(c) ==
    /\ c \in 1..Len(calls')
    /\ calls'[c].pc = "done"
    /\ c \in 1..Len(calls) => calls[c].pc # "done"

\* C37: every non-empty result a call returns is computed from an
\* Autocompletion whose status is finished at the moment of the return; none is
\* made from a pending or a failed one.
C37_ResultsComeFromFinished ==
    [][\A c \in 1..Len(calls') :
          (ReturnsNow(c) /\ calls'[c].result # <<>>) =>
              /\ calls'[c].aid \in DOMAIN autocompletions'
              /\ autocompletions'[calls'[c].aid].status = "finished"]_vars

\* a call that waited on another call's request has returned its insertion,
\* and so has a call that found the finished Autocompletion in the cache
C37_Witness ==
    /\ \E c \in 1..Len(calls) : calls[c].path = "hit-resolved" /\ calls[c].result # <<>>
    /\ \E c \in 1..Len(calls) : calls[c].path = "hit-finished" /\ calls[c].result # <<>>

\* the ids of the Autocompletions cached for the document whose matchup with
\* the prefix succeeds
MatchingIn(docUriStr, prefix) ==
    IF docUriStr \notin DOMAIN _autocompletionsOfDocument THEN {}
    ELSE {id \in {CacheOf(docUriStr).items[i].value : i \in 1..Len(CacheOf(docUriStr).items)} :
             getAutocompletionMatchup(prefix, autocompletions[id]) # None}

\* C38: the cache lookup of a call takes the Autocompletion of lowest id among
\* those cached for the document whose matchup with the call's prefix
\* succeeds, whatever its status (so a pending one is taken before a finished
\* one of higher id), and goes on to the debounce when there is none.
C38_LookupTakesLowestMatchingId ==
    [][(StartsCall /\ calls'[StartedCall].path # "disabled") =>
          LET call == calls'[StartedCall]
              matching == MatchingIn(call.docUriStr, PrefixAndSuffixOf(call.buf).prefix)
          IN  IF matching = {} THEN call.pc = "debounce"
              ELSE call.aid = MinOf(matching)]_vars

\* a call waits on a pending Autocompletion while a finished one of higher id,
\* cached for the same document, matches its prefix as well
C38_Witness ==
    \E c \in 1..Len(calls) :
        /\ calls[c].pc = "await-hit"
        /\ autocompletions[calls[c].aid].status = "pending"
        /\ \E id \in MatchingIn(calls[c].docUriStr, PrefixAndSuffixOf(calls[c].buf).prefix) :
               /\ id > calls[c].aid
               /\ autocompletions[id].status = "finished"

\* C39: freeInlineCompletions treats as accepted (removes from the cache, with
\* the acceptance timestamp set and the request aborted) only Autocompletions
\* whose status is finished, never a pending one.
C39_FreeAcceptsFinishedOnly ==
    [][FreeRemoves =>
          \A i \in (Len(abortLog) + 1)..Len(abortLog') :
              abortLog'[i].status = "finished"]_vars

\* the text ends with the last character the old suffix and the insertion have
\* in common, and the range covers the old suffix up to that character
EndsWithLastCommon(item, oldSuffix, insertText) ==
    /\ EndsAfterLastCommon(item.numCharsToReplace, oldSuffix, insertText)
    /\ item.insertText # <<>>
    /\ item.insertText[Len(item.insertText)] = oldSuffix[item.numCharsToReplace]

\* C40: toInlineCompletions never returns an empty insertText with a range that
\* holds characters; for single-line-redo-suffix, when the old line suffix is
\* not a subsequence of the insertion, the text returned ends with the last
\* common matching character and the range covers characters of the old
\* suffix only, up to that character.
C40_NoEmptyTextOverNonEmptyRange ==
    Called("toInlineCompletions") =>
        LET item == fnOutput.result[1]
            oldSuffix == LineRightOfCursor(fnInput.fullText, fnInput.cursorOffset)
        IN  /\ item.insertText = <<>> => item.numCharsToReplace = 0
            /\ (fnInput.autocompletion.type = "single-line-redo-suffix" /\ ~item.toEndOfLine) =>
                   EndsWithLastCommon(item, oldSuffix, fnInput.autocompletion.insertText)

====
